---- MODULE Spec2Model ----
(***************************************************************************)
(* A model of src/src/canvas_base.c (spice-common): the image decode and   *)
(* raster composition layer of the canvas.                                 *)
(*                                                                         *)
(* The module holds several specifications over one set of variables, one  *)
(* per part of the file; a specification moves the variables of its part   *)
(* and leaves the others at their initial values.                          *)
(*   SpecInverse  canvas_handle_inverse_user_data, called by several       *)
(*                threads (CAIRO_CANVAS_CACH_IS_SHARED build)              *)
(*   SpecImage    canvas_get_image and the bits cache (cache build)        *)
(*   SpecQuic     canvas_get_quic and quic_usr_more_space over a chunked   *)
(*                payload (build without CAIRO_CANVAS_NO_CHUNKS)           *)
(*   SpecBitmap   canvas_bitmap_to_surface and the canvas_copy_* functions *)
(*   SpecPixel    canvas_16bpp_to_32bpp, on every 16-bit value             *)
(***************************************************************************)
EXTENDS Integers, Sequences, FiniteSets, TLC

(***************************************************************************)
(* Bounds of the model.                                                    *)
(***************************************************************************)
NThreads == 2
MaxCalls == 3
MaxImgCalls == 3
MaxId == 2
MaxAddr == 3
MaxChunks == 3
MaxNeed == 4
MaxZero == 2
MaxQuicCalls == 2
MaxW == 3
MaxH == 2
MaxIvsW == 9
MaxIvsH == 2
MaxIvsCalls == 2
MaxGlyphs == 2
MaxGW == 2
MaxGH == 2
MaxGPos == 1
MaxPalAddr == 1
MaxPalCalls == 2
MaxMskW == 9
MaxMskH == 2
MaxMaskCalls == 2
MaxOtherCalls == 1

NULL == 0

(***************************************************************************)
(* The inverse surface cache: state.                                       *)
(*   inv_pc[t]     where thread t stands in canvas_handle_inverse_user_data*)
(*   inv_surf[t]   its local inv_surf (NULL or the id of an inverse)       *)
(*   mutex         cairo_surface_user_data_mutex: NULL or the holder       *)
(*   user_data     the surface's user data under invers_data_type          *)
(*   refcnt[s]     cairo reference count of inverse surface s              *)
(*   allocd        inverse surfaces created so far (their ids: 1..allocd)  *)
(*   held[s]       references to s handed to callers and not yet released  *)
(*   returned[t]   what t's last completed call returned                   *)
(*   orig_alive    the original surface has not been destroyed             *)
(*   ncalls        calls begun so far                                      *)
(*   set_failed    some cairo_surface_set_user_data call has failed        *)
(***************************************************************************)
VARIABLES inv_pc, inv_surf, mutex, user_data, refcnt, allocd, held, returned,
          orig_alive, ncalls, set_failed

invVars == <<inv_pc, inv_surf, mutex, user_data, refcnt, allocd, held, returned,
             orig_alive, ncalls, set_failed>>

(***************************************************************************)
(* canvas_get_image and the bits cache: state.                             *)
(*   build         the compile-time variant: CAIRO_CANVAS_NO_CHUNKS, USE_GLZ*)
(*   bits_cache    the external bits cache: id -> surface (NULL: no entry) *)
(*   img_puts      bits_cache_put calls made so far                        *)
(*   img_nsurf     surfaces decoded so far (their ids: 1..img_nsurf)       *)
(*   img_ncalls    canvas_get_image calls made so far                      *)
(*   img_last      the last call: its descriptor and what it returned      *)
(*   img_recent    for each id, the surface of the most recent successful  *)
(*                 decode of a CacheMe descriptor of that id (history)     *)
(***************************************************************************)
VARIABLES build, bits_cache, img_puts, img_nsurf, img_ncalls, img_last, img_recent

imgVars == <<build, bits_cache, img_puts, img_nsurf, img_ncalls, img_last, img_recent>>

(***************************************************************************)
(* canvas_get_quic over a chunked payload: state.                          *)
(*   mem            the mapped buffer: local address -> DataChunk header   *)
(*                  {size, next}; next is a protocol-relative address      *)
(*   canvas_delta   canvas->address_delta                                  *)
(*   quic_chain     the local addresses of the image's chunks C0..Ck, in   *)
(*                  list order (what the sender laid out)                  *)
(*   quic_next      quic_data.next                                         *)
(*   quic_delta     quic_data.address_delta                                *)
(*   quic_pc        "idle", or the codec call the decode is inside:        *)
(*                  "begin" (quic_decode_begin), "decode" (quic_decode)    *)
(*   quic_need      words of input the stream being decoded asks for       *)
(*   quic_got       words of input the codec has been given in this call   *)
(*   quic_supplied  the chunks given to the codec in this call, in order:  *)
(*                  <<local address, words>>                               *)
(*   quic_reads     DataChunk headers read in this call                    *)
(*   quic_zero      quic_usr_more_space calls of this call that returned 0 *)
(*   quic_surface   the surface allocated by this call (0: none)           *)
(*   quic_result    what the last finished call returned                   *)
(*   quic_live      surfaces allocated by failed calls and never destroyed *)
(*   quic_ncalls    canvas_get_quic calls begun so far                     *)
(*   quic_hdr       what quic_decode_begin reported in this call: the      *)
(*                  image type, and whether width and height are those of  *)
(*                  the descriptor ("none": nothing reported yet)          *)
(*   quic_prev      what this call found in quic_data at its entry: whether *)
(*                  the cursor of the call before was left on a chunk, and *)
(*                  the address delta of the call before                   *)
(***************************************************************************)
VARIABLES mem, canvas_delta, quic_chain, quic_next, quic_delta, quic_pc, quic_need,
          quic_got, quic_supplied, quic_reads, quic_zero, quic_surface, quic_result,
          quic_live, quic_ncalls, quic_hdr, quic_prev

quicVars == <<mem, canvas_delta, quic_chain, quic_next, quic_delta, quic_pc, quic_need,
              quic_got, quic_supplied, quic_reads, quic_zero, quic_surface, quic_result,
              quic_live, quic_ncalls, quic_hdr, quic_prev>>

(***************************************************************************)
(* canvas_bitmap_to_surface: state.                                        *)
(*   bmp          the Bitmap: format, x (width), y (height), stride,       *)
(*                top_down (BITMAP_TOP_DOWN in flags) and data, the source *)
(*                rows in memory order, each a sequence of stride bytes    *)
(*   bmp_palette  the palette argument: NULL or {num_ents, ents}           *)
(*   bmp_beyond   the word a read of ents[] past num_ents comes back with  *)
(*   bmp_created  whether surface_create succeeds                          *)
(*   bmp_out      the call's outcome: status and the rows of the surface,  *)
(*                top row first, each a sequence of 32-bit pixels          *)
(***************************************************************************)
VARIABLES bmp, bmp_palette, bmp_beyond, bmp_created, bmp_out

bmpVars == <<bmp, bmp_palette, bmp_beyond, bmp_created, bmp_out>>

(***************************************************************************)
(* canvas_16bpp_to_32bpp: state.                                           *)
(*   px_color   the argument                                               *)
(*   px_ret     the value returned (-1: not called yet)                    *)
(***************************************************************************)
VARIABLES px_color, px_ret

pxVars == <<px_color, px_ret>>

(***************************************************************************)
(* canvas_A1_invers and canvas_surf_to_invers: state.                      *)
(*   ivs_src   the surface the first call is given: format, width, height, *)
(*             stride, status and rows; a row of an A1 surface is stride   *)
(*             bytes, a row of an RGB24 surface is width 32-bit words, a   *)
(*             word being its top byte and its low 24 bits                 *)
(*   ivs_out   what the calls made so far returned, each call being given  *)
(*             the surface the call before it returned                     *)
(***************************************************************************)
VARIABLES ivs_src, ivs_out

ivsVars == <<ivs_src, ivs_out>>

(***************************************************************************)
(* canvas_get_str_mask: state.                                             *)
(*   str_gl      the build: GL_CANVAS defined or not                       *)
(*   str_bpp     the bpp argument                                          *)
(*   str_glyphs  the RasterGlyph records of the string, in order: each its *)
(*               render_pos, glyph_origin, width, height, its data bytes   *)
(*               in memory order, and after, the bytes that lie behind its *)
(*               data: the start of the next glyph, or of what follows the *)
(*               string                                                    *)
(*   str_out     the call's outcome: status, the mask's rows in memory     *)
(*               order (rows of bytes) and pos                             *)
(***************************************************************************)
VARIABLES str_gl, str_bpp, str_glyphs, str_out

strVars == <<str_gl, str_bpp, str_glyphs, str_out>>

(***************************************************************************)
(* Palettes, canvas_get_bits and canvas_get_lz: state.                     *)
(*   cache_build    the build: CAIRO_CANVAS_CACHE defined or not           *)
(*   color_shift    canvas->color_shift: 5 (depth 16) or 8; 0 before       *)
(*                  canvas_base_init                                       *)
(*   pal_wire       the palette buffers of the wire: address -> palette    *)
(*   pal_orig       the palettes as the sender wrote them (history)        *)
(*   palette_cache  the external palette cache: id -> palette (the palette *)
(*                  at address a carries the id a)                         *)
(*   pal_gets       palette_cache_get calls made so far                    *)
(*   pal_releases   palette_cache_release calls made so far                *)
(*   pal_bad_rel    palette_cache_release calls on a palette that did not  *)
(*                  come from the cache                                    *)
(*   pal_live       surfaces allocated by failed decodes, never destroyed  *)
(*   pal_ncalls     decode calls made so far                               *)
(*   pal_last       the last decode call and its outcome                   *)
(***************************************************************************)
VARIABLES cache_build, color_shift, pal_wire, pal_orig, palette_cache, pal_gets,
          pal_releases, pal_bad_rel, pal_live, pal_ncalls, pal_last

palVars == <<cache_build, color_shift, pal_wire, pal_orig, palette_cache, pal_gets,
             pal_releases, pal_bad_rel, pal_live, pal_ncalls, pal_last>>

\* The bitmap of a mask and the outcomes of canvas_get_bitmap_mask on it.
VARIABLES msk_build, msk_bmp, msk_plain, msk_inv

mskVars == <<msk_build, msk_bmp, msk_plain, msk_inv>>

(***************************************************************************)
(* canvas_get_mask (line 1094-1149) in the build with CAIRO_CANVAS_CACHE.  *)
(*   gm_target   the canvas the file is built for                          *)
(*   gm_heap     the surfaces allocated so far, a handle being an index:   *)
(*               rows, the bitmap a mask was made from, the handle of the  *)
(*               inverse attached as user data, and the references the     *)
(*               callers of canvas_get_mask hold                           *)
(*   gm_cache    the bits cache: id -> handle (NULL: no entry)             *)
(*   gm_ncalls   canvas_get_mask calls of the canvas made so far           *)
(*   gm_last     the last call of the canvas: its mask, where it stands    *)
(*               (pc) and its outcome                                      *)
(*   gm_ocalls,  the same for the thread of another canvas that shares the *)
(*   gm_other    cache (CAIRO_CANVAS_CACH_IS_SHARED)                       *)
(***************************************************************************)
VARIABLES gm_target, gm_heap, gm_cache, gm_ncalls, gm_last, gm_ocalls, gm_other

gmVars == <<gm_target, gm_heap, gm_cache, gm_ncalls, gm_last, gm_ocalls, gm_other>>

vars == <<invVars, imgVars, quicVars, bmpVars, pxVars, ivsVars, strVars,
         palVars, mskVars, gmVars>>

\* What the steps of one part leave alone: the variables of the other parts.
InvFrame ==
    UNCHANGED <<imgVars, quicVars, bmpVars, pxVars, ivsVars, strVars, palVars,
                mskVars, gmVars>>
ImgFrame ==
    UNCHANGED <<invVars, quicVars, bmpVars, pxVars, ivsVars, strVars, palVars,
                mskVars, gmVars>>
QuicFrame ==
    UNCHANGED <<invVars, imgVars, bmpVars, pxVars, ivsVars, strVars, palVars,
                mskVars, gmVars>>
BmpFrame ==
    UNCHANGED <<invVars, imgVars, quicVars, pxVars, ivsVars, strVars, palVars,
                mskVars, gmVars>>
PxFrame ==
    UNCHANGED <<invVars, imgVars, quicVars, bmpVars, ivsVars, strVars, palVars,
                mskVars, gmVars>>
IvsFrame ==
    UNCHANGED <<invVars, imgVars, quicVars, bmpVars, pxVars, strVars, palVars,
                mskVars, gmVars>>
StrFrame ==
    UNCHANGED <<invVars, imgVars, quicVars, bmpVars, pxVars, ivsVars, palVars,
                mskVars, gmVars>>
PalFrame ==
    UNCHANGED <<invVars, imgVars, quicVars, bmpVars, pxVars, ivsVars, strVars,
                mskVars, gmVars>>
MskFrame ==
    UNCHANGED <<invVars, imgVars, quicVars, bmpVars, pxVars, ivsVars, strVars,
                palVars, gmVars>>
GmFrame ==
    UNCHANGED <<invVars, imgVars, quicVars, bmpVars, pxVars, ivsVars, strVars,
                palVars, mskVars>>

Threads == 1..NThreads
Surfs == 1..MaxCalls

InvInit ==
    /\ inv_pc = [t \in Threads |-> "idle"]
    /\ inv_surf = [t \in Threads |-> NULL]
    /\ mutex = NULL
    /\ user_data = NULL
    /\ refcnt = [s \in Surfs |-> 0]
    /\ allocd = 0
    /\ held = [s \in Surfs |-> 0]
    /\ returned = [t \in Threads |-> NULL]
    /\ orig_alive = TRUE
    /\ ncalls = 0
    /\ set_failed = FALSE

\* MUTEX_LOCK / MUTEX_UNLOCK
MUTEX_LOCK(t) == mutex = NULL /\ mutex' = t
MUTEX_UNLOCK(t) == mutex = t /\ mutex' = NULL

\* cairo_surface_reference / cairo_surface_destroy on an inverse surface
cairo_surface_reference(rc, s) == [rc EXCEPT ![s] = @ + 1]
cairo_surface_destroy(rc, s) == IF s = NULL THEN rc ELSE [rc EXCEPT ![s] = @ - 1]

\* The call returns inv_surf to its caller, who now holds one reference.
InvReturn(t) ==
    /\ returned' = [returned EXCEPT ![t] = inv_surf[t]]
    /\ held' = [held EXCEPT ![inv_surf[t]] = @ + 1]
    /\ inv_pc' = [inv_pc EXCEPT ![t] = "idle"]

\* Entry: inv_surf = NULL; MUTEX_LOCK (line 1053-1056).  The caller holds a
\* reference to the original surface for the length of the call.
InvLock1(t) ==
    /\ inv_pc[t] = "idle"
    /\ orig_alive
    /\ ncalls < MaxCalls
    /\ MUTEX_LOCK(t)
    /\ ncalls' = ncalls + 1
    /\ inv_surf' = [inv_surf EXCEPT ![t] = NULL]
    /\ inv_pc' = [inv_pc EXCEPT ![t] = "get"]
    /\ UNCHANGED <<user_data, refcnt, allocd, held, returned, orig_alive, set_failed>>
    /\ InvFrame

\* inv_surf = cairo_surface_get_user_data(surface, &invers_data_type) (line 1057)
InvGet(t) ==
    /\ inv_pc[t] = "get"
    /\ inv_surf' = [inv_surf EXCEPT ![t] = user_data]
    /\ inv_pc' = [inv_pc EXCEPT ![t] = "unlock1"]
    /\ UNCHANGED <<mutex, user_data, refcnt, allocd, held, returned, orig_alive,
                   ncalls, set_failed>>
    /\ InvFrame

\* MUTEX_UNLOCK, then the branch on inv_surf (line 1059-1061)
InvUnlock1(t) ==
    /\ inv_pc[t] = "unlock1"
    /\ MUTEX_UNLOCK(t)
    /\ inv_pc' = [inv_pc EXCEPT ![t] = IF inv_surf[t] = NULL THEN "create" ELSE "ref"]
    /\ UNCHANGED <<inv_surf, user_data, refcnt, allocd, held, returned, orig_alive,
                   ncalls, set_failed>>
    /\ InvFrame

\* canvas_A1_invers / canvas_surf_to_invers: a new surface, one reference
\* (line 1062-1066).  The creation can fail: the failed surface is destroyed
\* and the call ends in CANVAS_ERROR("create surface failed") without a
\* surface for its caller (line 1068-1072, 1029-1032).
InvCreate(t) ==
    /\ inv_pc[t] = "create"
    /\ \E created \in BOOLEAN :
          IF created
          THEN /\ allocd' = allocd + 1
               /\ refcnt' = [refcnt EXCEPT ![allocd + 1] = 1]
               /\ inv_surf' = [inv_surf EXCEPT ![t] = allocd + 1]
               /\ inv_pc' = [inv_pc EXCEPT ![t] = "lock2"]
          ELSE /\ inv_pc' = [inv_pc EXCEPT ![t] = "idle"]
               /\ UNCHANGED <<allocd, refcnt, inv_surf>>
    /\ UNCHANGED <<mutex, user_data, held, returned, orig_alive, ncalls, set_failed>>
    /\ InvFrame

\* MUTEX_LOCK before the attach (line 1074)
InvLock2(t) ==
    /\ inv_pc[t] = "lock2"
    /\ MUTEX_LOCK(t)
    /\ inv_pc' = [inv_pc EXCEPT ![t] = "attach"]
    /\ UNCHANGED <<inv_surf, user_data, refcnt, allocd, held, returned, orig_alive,
                   ncalls, set_failed>>
    /\ InvFrame

\* cairo_surface_set_user_data(surface, key, inv, __release_surface): on
\* success the slot holds inv and the data it held before is released through
\* its destroy function; it can fail (CAIRO_STATUS_NO_MEMORY).  ok is the outcome.
SetUserData(t, ok) ==
    IF ok
    THEN /\ user_data' = inv_surf[t]
         /\ refcnt' = cairo_surface_reference(cairo_surface_destroy(refcnt, user_data),
                                              inv_surf[t])
         /\ UNCHANGED set_failed
    ELSE /\ set_failed' = TRUE
         /\ UNCHANGED <<user_data, refcnt>>

\* A bug the attach could have: no second look at the user data.
InvAttach_NoRecheck(t) ==
    /\ inv_pc[t] = "attach"
    /\ \E ok \in BOOLEAN : SetUserData(t, ok)
    /\ inv_pc' = [inv_pc EXCEPT ![t] = "unlock2"]
    /\ UNCHANGED <<inv_surf, mutex, allocd, held, returned, orig_alive, ncalls>>
    /\ InvFrame

\* "checking if other thread has already assigned the user data": set the user
\* data and take a second reference only if there is none (line 1076-1084)
InvAttach(t) ==
    /\ inv_pc[t] = "attach"
    /\ IF user_data = NULL
       THEN \E ok \in BOOLEAN : SetUserData(t, ok)
       ELSE UNCHANGED <<user_data, refcnt, set_failed>>
    /\ inv_pc' = [inv_pc EXCEPT ![t] = "unlock2"]
    /\ UNCHANGED <<inv_surf, mutex, allocd, held, returned, orig_alive, ncalls>>
    /\ InvFrame

\* MUTEX_UNLOCK and return inv_surf (line 1085-1091)
InvUnlock2(t) ==
    /\ inv_pc[t] = "unlock2"
    /\ MUTEX_UNLOCK(t)
    /\ InvReturn(t)
    /\ UNCHANGED <<inv_surf, user_data, refcnt, allocd, orig_alive, ncalls, set_failed>>
    /\ InvFrame

\* A bug the else branch could have: the found inverse is returned without a
\* reference of the caller's own.
InvRef_NoReference(t) ==
    /\ inv_pc[t] = "ref"
    /\ InvReturn(t)
    /\ UNCHANGED <<inv_surf, mutex, user_data, refcnt, allocd, orig_alive, ncalls,
                   set_failed>>
    /\ InvFrame

\* else branch: cairo_surface_reference(inv_surf) and return (line 1087-1091)
InvRef(t) ==
    /\ inv_pc[t] = "ref"
    /\ refcnt' = cairo_surface_reference(refcnt, inv_surf[t])
    /\ InvReturn(t)
    /\ UNCHANGED <<inv_surf, mutex, user_data, allocd, orig_alive, ncalls, set_failed>>
    /\ InvFrame

\* A caller is done with a returned inverse: cairo_surface_destroy, as the
\* comment above the function requires (line 1045-1050)
InvCallerRelease ==
    /\ \E s \in Surfs :
          /\ held[s] > 0
          /\ held' = [held EXCEPT ![s] = @ - 1]
          /\ refcnt' = cairo_surface_destroy(refcnt, s)
    /\ UNCHANGED <<inv_pc, inv_surf, mutex, user_data, allocd, returned, orig_alive,
                   ncalls, set_failed>>
    /\ InvFrame

\* The last reference to the original surface goes (no call is running on
\* it): cairo releases its user data through __release_surface (line 768-771)
InvDestroyOriginal ==
    /\ orig_alive
    /\ \A t \in Threads : inv_pc[t] = "idle"
    /\ orig_alive' = FALSE
    /\ refcnt' = cairo_surface_destroy(refcnt, user_data)
    /\ user_data' = NULL
    /\ UNCHANGED <<inv_pc, inv_surf, mutex, allocd, held, returned, ncalls, set_failed>>
    /\ InvFrame

InvNext ==
    \/ \E t \in Threads :
          \/ InvLock1(t)
          \/ InvGet(t)
          \/ InvUnlock1(t)
          \/ InvCreate(t)
          \/ InvLock2(t)
          \/ InvAttach(t)
          \/ InvUnlock2(t)
          \/ InvRef(t)
    \/ InvCallerRelease
    \/ InvDestroyOriginal

(***************************************************************************)
(* canvas_get_image (cache build, line 775-836).                           *)
(***************************************************************************)
IMAGE_TYPE_BITMAP == "BITMAP"
IMAGE_TYPE_QUIC == "QUIC"
IMAGE_TYPE_LZ_PLT == "LZ_PLT"
IMAGE_TYPE_LZ_RGB == "LZ_RGB"
IMAGE_TYPE_GLZ_RGB == "GLZ_RGB"
IMAGE_TYPE_FROM_CACHE == "FROM_CACHE"
IMAGE_TYPE_OTHER == "OTHER"

ImageTypes == {IMAGE_TYPE_BITMAP, IMAGE_TYPE_QUIC, IMAGE_TYPE_LZ_PLT, IMAGE_TYPE_LZ_RGB,
               IMAGE_TYPE_GLZ_RGB, IMAGE_TYPE_FROM_CACHE, IMAGE_TYPE_OTHER}

Ids == 1..MaxId
ImgSurfs == 1..MaxImgCalls
Builds == [no_chunks : BOOLEAN, use_glz : BOOLEAN]

NoCall == [type |-> "none", cache_me |-> FALSE, id |-> 0, status |-> "none", surface |-> NULL]
EmptyCache == [i \in Ids |-> NULL]

\* The state of this part when another specification runs.
ImgRest ==
    /\ build = [no_chunks |-> FALSE, use_glz |-> TRUE]
    /\ bits_cache = EmptyCache
    /\ img_puts = 0
    /\ img_nsurf = 0
    /\ img_ncalls = 0
    /\ img_last = NoCall
    /\ img_recent = EmptyCache

ImgInit ==
    /\ build \in Builds
    /\ bits_cache = EmptyCache
    /\ img_puts = 0
    /\ img_nsurf = 0
    /\ img_ncalls = 0
    /\ img_last = NoCall
    /\ img_recent = EmptyCache

\* The external bits cache, as the interface gives it: put(id, surface),
\* get(id) -> the surface stored under id, or none.
bits_cache_put(cache, id, surface) == [cache EXCEPT ![id] = surface]
bits_cache_get(cache, id) == cache[id]

\* The switch on descriptor->type: which decoder the build dispatches to
\* (line 784-823).
ImageDecoder(b, type) ==
    CASE type = IMAGE_TYPE_QUIC -> "canvas_get_quic"
      [] type \in {IMAGE_TYPE_LZ_PLT, IMAGE_TYPE_LZ_RGB} /\ b.no_chunks -> "canvas_get_lz"
      [] type = IMAGE_TYPE_GLZ_RGB /\ b.use_glz -> "canvas_get_glz"
      [] type = IMAGE_TYPE_FROM_CACHE -> "bits_cache_get"
      [] type = IMAGE_TYPE_BITMAP -> "canvas_get_bits"
      [] OTHER -> "invalid image type"

IsDecoder(dec) == dec \in {"canvas_get_quic", "canvas_get_lz", "canvas_get_glz", "canvas_get_bits"}

\* A bug the cache policy could have: every decoded surface is put.
canvas_get_image_PutAlways(b, d, decoded, cache) ==
    LET dec == ImageDecoder(b, d.type) IN
    IF dec = "bits_cache_get"
    THEN [status |-> "ok", surface |-> bits_cache_get(cache, d.id), cache |-> cache, puts |-> 0]
    ELSE IF ~IsDecoder(dec) \/ decoded = NULL
    THEN [status |-> "error", surface |-> NULL, cache |-> cache, puts |-> 0]
    ELSE [status |-> "ok", surface |-> decoded,
          cache |-> bits_cache_put(cache, d.id, decoded), puts |-> 1]

\* canvas_get_image on descriptor d = [type, cache_me, id].  decoded is what
\* the decoder produces: a new surface, or NULL when it ends in CANVAS_ERROR.
\* The result: the call's status, the surface returned, the cache afterwards
\* and the number of bits_cache_put calls made.
canvas_get_image(b, d, decoded, cache) ==
    LET dec == ImageDecoder(b, d.type) IN
    IF dec = "bits_cache_get"
    THEN [status |-> "ok", surface |-> bits_cache_get(cache, d.id), cache |-> cache, puts |-> 0]
    ELSE IF ~IsDecoder(dec) \/ decoded = NULL
    THEN [status |-> "error", surface |-> NULL, cache |-> cache, puts |-> 0]
    ELSE IF d.cache_me
    THEN [status |-> "ok", surface |-> decoded,
          cache |-> bits_cache_put(cache, d.id, decoded), puts |-> 1]
    ELSE [status |-> "ok", surface |-> decoded, cache |-> cache, puts |-> 0]

\* One call of canvas_get_image, on any descriptor.
ImgGetImage ==
    /\ img_ncalls < MaxImgCalls
    /\ \E type \in ImageTypes, cache_me \in BOOLEAN, id \in Ids :
       \E decoded \in (IF IsDecoder(ImageDecoder(build, type))
                        THEN {NULL, img_nsurf + 1} ELSE {NULL}) :
          LET d == [type |-> type, cache_me |-> cache_me, id |-> id]
              r == canvas_get_image(build, d, decoded, bits_cache)
          IN /\ bits_cache' = r.cache
             /\ img_puts' = img_puts + r.puts
             /\ img_nsurf' = IF decoded = NULL THEN img_nsurf ELSE img_nsurf + 1
             /\ img_last' = [type |-> type, cache_me |-> cache_me, id |-> id,
                             status |-> r.status, surface |-> r.surface]
             /\ img_recent' = IF type # IMAGE_TYPE_FROM_CACHE /\ cache_me /\ decoded # NULL
                                 /\ r.status = "ok"
                               THEN [img_recent EXCEPT ![id] = decoded]
                               ELSE img_recent
    /\ img_ncalls' = img_ncalls + 1
    /\ UNCHANGED build
    /\ ImgFrame

ImgNext == ImgGetImage

(***************************************************************************)
(* canvas_get_quic (line 230-321) and quic_usr_more_space (line 1485-1497) *)
(* over a chunk list.                                                      *)
(***************************************************************************)
Deltas == {0, 2}
ChunkSizes == {4, 8}
MemAddrs == 0..(MaxAddr + 2)
NoChunk == [size |-> 0, next |-> NULL]

\* The injective sequences of 1..n addresses taken from S.
RECURSIVE ChainsOf(_, _)
ChainsOf(S, n) ==
    IF n = 0 THEN {<<>>}
    ELSE LET shorter == ChainsOf(S, n - 1) IN
         shorter \cup {Append(c, a) : c \in {x \in shorter : Len(x) = n - 1}, a \in S}

Range(f) == {f[i] : i \in DOMAIN f}
IsInjective(f) == \A i, j \in DOMAIN f : f[i] = f[j] => i = j

\* The buffer holding the chunks of chain with the given sizes, as the sender
\* lays it out for a receiver whose address delta is delta: each next holds
\* the next chunk's local address less delta, the last one holds 0.
ChunkMemory(chain, sizes, delta) ==
    [a \in MemAddrs |->
        IF \E i \in DOMAIN chain : chain[i] = a
        THEN LET i == CHOOSE i \in DOMAIN chain : chain[i] = a IN
             [size |-> sizes[i],
              next |-> IF i < Len(chain) THEN chain[i + 1] - delta ELSE NULL]
        ELSE NoChunk]

NoResult == [status |-> "none", surface |-> NULL]
NoHeader == [type |-> "none", same_size |-> TRUE]
NoEntry == [cursor_left |-> FALSE, delta |-> 0]

QuicRest ==
    /\ mem = [a \in MemAddrs |-> NoChunk]
    /\ canvas_delta = 0
    /\ quic_chain = <<>>
    /\ quic_next = NULL
    /\ quic_delta = 0
    /\ quic_pc = "idle"
    /\ quic_need = 0
    /\ quic_got = 0
    /\ quic_supplied = <<>>
    /\ quic_reads = 0
    /\ quic_zero = 0
    /\ quic_surface = NULL
    /\ quic_result = NoResult
    /\ quic_live = 0
    /\ quic_ncalls = 0
    /\ quic_hdr = NoHeader
    /\ quic_prev = NoEntry

\* A canvas whose address delta has been set (__canvas_set_access_params,
\* line 1516-1519) and a buffer holding one chunked Quic image.
QuicInit ==
    /\ canvas_delta \in Deltas
    /\ quic_chain \in {c \in ChainsOf(1..MaxAddr, MaxChunks) :
                          /\ Len(c) >= 1
                          /\ IsInjective(c)
                          /\ \A i \in 2..Len(c) : c[i] - canvas_delta \in 1..MaxAddr}
    /\ \E sizes \in [1..Len(quic_chain) -> ChunkSizes] :
          mem = ChunkMemory(quic_chain, sizes, canvas_delta)
    /\ quic_next = NULL
    /\ quic_delta = 0
    /\ quic_pc = "idle"
    /\ quic_need = 0
    /\ quic_got = 0
    /\ quic_supplied = <<>>
    /\ quic_reads = 0
    /\ quic_zero = 0
    /\ quic_surface = NULL
    /\ quic_result = NoResult
    /\ quic_live = 0
    /\ quic_ncalls = 0
    /\ quic_hdr = NoHeader
    /\ quic_prev = NoEntry

\* A bug the callback could have: the next address is used as it is.
quic_usr_more_space_NoDelta(next, delta, memory) ==
    IF next = NULL
    THEN [words |-> 0, next |-> next, chunk |-> NULL]
    ELSE [words |-> memory[next].size \div 4,
          next |-> memory[next].next,
          chunk |-> next]

\* quic_usr_more_space (line 1485-1497) on quic_data.next and
\* quic_data.address_delta: the words handed to the codec (chunk->size >> 2),
\* the new quic_data.next, and the chunk whose header was read (NULL: none).
quic_usr_more_space(next, delta, memory) ==
    IF next = NULL
    THEN [words |-> 0, next |-> next, chunk |-> NULL]
    ELSE [words |-> memory[next + delta].size \div 4,
          next |-> memory[next + delta].next,
          chunk |-> next + delta]

\* The codec: words of input quic_decode_begin reads (the stream's header).
HeaderWords == 2

\* The input the codec call in progress has to read before it can end.
QuicTarget == IF quic_pc = "begin" THEN HeaderWords ELSE quic_need

\* CANVAS_ERROR ends the call (the macro is the embedder's: abort by
\* default, an exception in the client).  left is 1 when a surface the call
\* allocated is still live.
QuicFail(left) ==
    /\ quic_result' = [status |-> "error", surface |-> NULL]
    /\ quic_live' = quic_live + left
    /\ quic_surface' = NULL
    /\ quic_pc' = "idle"

\* A bug the entry could have: a cursor the call before left on a chunk is
\* kept, with its delta.
QuicEntry_KeepCursor(first_next, delta, left_next, left_delta) ==
    IF left_next # NULL
    THEN [next |-> left_next, delta |-> left_delta]
    ELSE [next |-> first_next, delta |-> delta]

\* quic_data->next and quic_data->address_delta as canvas_get_quic sets them
\* at its entry (line 258-259), whatever the call before left in them.
QuicEntry(first_next, delta, left_next, left_delta) ==
    [next |-> first_next, delta |-> delta]

\* canvas_get_quic up to the call of quic_decode_begin (line 232-260): the
\* error context is armed, and the first chunk is read through the pointer
\* held in image->quic.data.
QuicCall ==
    /\ quic_pc = "idle"
    /\ quic_chain # <<>>
    /\ quic_ncalls < MaxQuicCalls
    /\ quic_ncalls' = quic_ncalls + 1
    /\ LET chunk == quic_chain[1]
           entry == QuicEntry(mem[chunk].next, canvas_delta, quic_next, quic_delta) IN
         /\ quic_next' = entry.next
         /\ quic_delta' = entry.delta
         /\ quic_got' = mem[chunk].size \div 4
         /\ quic_supplied' = <<<<chunk, mem[chunk].size \div 4>>>>
    /\ quic_reads' = 1
    /\ quic_zero' = 0
    /\ quic_surface' = NULL
    /\ quic_pc' = "begin"
    /\ quic_need' \in HeaderWords..MaxNeed
    /\ quic_hdr' = NoHeader
    /\ quic_prev' = [cursor_left |-> quic_next # NULL, delta |-> quic_delta]
    /\ UNCHANGED <<mem, canvas_delta, quic_chain, quic_result, quic_live>>
    /\ QuicFrame

\* The codec has used up its input and asks for more: quic_usr_more_space.
\* (After a call that returned 0 the codec may ask again before giving up.)
QuicMoreSpace ==
    /\ quic_pc \in {"begin", "decode"}
    /\ quic_got < QuicTarget
    /\ quic_zero < MaxZero
    /\ LET r == quic_usr_more_space(quic_next, quic_delta, mem) IN
         /\ quic_next' = r.next
         /\ quic_got' = quic_got + r.words
         /\ quic_reads' = IF r.chunk = NULL THEN quic_reads ELSE quic_reads + 1
         /\ quic_supplied' = IF r.chunk = NULL THEN quic_supplied
                              ELSE Append(quic_supplied, <<r.chunk, r.words>>)
         /\ quic_zero' = IF r.words = 0 THEN quic_zero + 1 ELSE quic_zero
    /\ UNCHANGED <<mem, canvas_delta, quic_chain, quic_hdr, quic_prev, quic_delta, quic_pc, quic_need,
                   quic_surface, quic_result, quic_live, quic_ncalls>>
    /\ QuicFrame

QUIC_IMAGE_TYPES == {"INVALID", "GRAY", "RGB16", "RGB24", "RGB32", "RGBA"}

\* quic_decode_begin returned with the header {type, width, height}:
\* the switch on type, the two ASSERTs and surface_create (line 266-294).
\* same_size: the reported width and height are the descriptor's;
\* created: surface_create succeeded.
QuicBeginDone ==
    /\ quic_pc = "begin"
    /\ quic_got >= HeaderWords
    /\ \E type \in QUIC_IMAGE_TYPES, same_size \in BOOLEAN, created \in BOOLEAN :
          /\ quic_hdr' = [type |-> type, same_size |-> same_size]
          /\ IF type \in {"RGBA", "RGB32", "RGB24", "RGB16"} /\ same_size /\ created
             THEN /\ quic_surface' = 1
                  /\ quic_pc' = "decode"
                  /\ UNCHANGED <<quic_result, quic_live>>
             ELSE QuicFail(0)
    /\ UNCHANGED <<mem, canvas_delta, quic_chain, quic_next, quic_delta, quic_need,
                   quic_got, quic_supplied, quic_reads, quic_zero, quic_ncalls,
                   quic_prev>>
    /\ QuicFrame

\* A bug the end of the decode could have: quic_decode's result is not looked at.
QuicDecodeResult_Unchecked(ret, surface) == [status |-> "ok", surface |-> surface]

\* What canvas_get_quic makes of quic_decode's return value (line 298-320).
QuicDecodeResult(ret, surface) ==
    IF ret = "QUIC_ERROR"
    THEN [status |-> "error", surface |-> NULL]
    ELSE [status |-> "ok", surface |-> surface]

\* quic_decode returns: QUIC_OK once the codec has read the whole stream,
\* or QUIC_ERROR.  On QUIC_ERROR the call ends in CANVAS_ERROR with the
\* surface still allocated (line 298-301).
QuicDecodeDone ==
    /\ quic_pc = "decode"
    /\ \E ret \in {"QUIC_OK", "QUIC_ERROR"} :
          /\ ret = "QUIC_OK" => quic_got >= quic_need
          /\ quic_result' = QuicDecodeResult(ret, quic_surface)
          /\ quic_live' = IF quic_result'.status = "error" THEN quic_live + 1 ELSE quic_live
    /\ quic_surface' = NULL
    /\ quic_pc' = "idle"
    /\ UNCHANGED <<mem, canvas_delta, quic_chain, quic_hdr, quic_prev, quic_next, quic_delta, quic_need,
                   quic_got, quic_supplied, quic_reads, quic_zero, quic_ncalls>>
    /\ QuicFrame

\* quic_decode_begin returns QUIC_ERROR: CANVAS_ERROR (line 260-263).
QuicBeginError ==
    /\ quic_pc = "begin"
    /\ QuicFail(0)
    /\ UNCHANGED <<mem, canvas_delta, quic_chain, quic_hdr, quic_prev, quic_next, quic_delta, quic_need,
                   quic_got, quic_supplied, quic_reads, quic_zero, quic_ncalls>>
    /\ QuicFrame

\* The codec calls usr->error: quic_usr_error longjmps to the setjmp of
\* canvas_get_quic, which destroys surface and ends in CANVAS_ERROR
\* (line 245-248, 1402-1412).  surface is a non-volatile local assigned after
\* the setjmp, so its value after the longjmp is indeterminate: the handler
\* sees the allocated surface or the NULL it held at the setjmp.
QuicUsrError ==
    /\ quic_pc \in {"begin", "decode"}
    /\ \E seen \in {NULL, quic_surface} :
          QuicFail(IF quic_surface # NULL /\ seen = NULL THEN 1 ELSE 0)
    /\ UNCHANGED <<mem, canvas_delta, quic_chain, quic_hdr, quic_prev, quic_next, quic_delta, quic_need,
                   quic_got, quic_supplied, quic_reads, quic_zero, quic_ncalls>>
    /\ QuicFrame

\* Between two calls the address delta of the canvas is set anew
\* (__canvas_set_access_params, line 1516-1519), and the sender lays the
\* image's chunks out for the new delta.
QuicSetDelta ==
    /\ quic_pc = "idle"
    /\ quic_chain # <<>>
    /\ \E delta \in Deltas \ {canvas_delta} :
          /\ \A i \in 2..Len(quic_chain) : quic_chain[i] - delta \in 1..MaxAddr
          /\ canvas_delta' = delta
          /\ mem' = ChunkMemory(quic_chain,
                                [i \in 1..Len(quic_chain) |-> mem[quic_chain[i]].size],
                                delta)
    /\ UNCHANGED <<quic_chain, quic_hdr, quic_prev, quic_next, quic_delta, quic_pc,
                   quic_need, quic_got, quic_supplied, quic_reads, quic_zero,
                   quic_surface, quic_result, quic_live, quic_ncalls>>
    /\ QuicFrame

QuicNext ==
    \/ QuicCall
    \/ QuicMoreSpace
    \/ QuicBeginDone
    \/ QuicBeginError
    \/ QuicDecodeDone
    \/ QuicUsrError

(***************************************************************************)
(* Unsigned arithmetic of C: & | << >>.  Every value shifted left in the  *)
(* modelled code is below 2^15 and shifted by at most 9, so no bit leaves  *)
(* the 32-bit word and the shift is a multiplication.                      *)
(***************************************************************************)
RECURSIVE BitAnd(_, _)
BitAnd(a, b) ==
    IF a = 0 \/ b = 0 THEN 0
    ELSE (a % 2) * (b % 2) + 2 * BitAnd(a \div 2, b \div 2)

RECURSIVE BitOr(_, _)
BitOr(a, b) ==
    IF a = 0 THEN b
    ELSE IF b = 0 THEN a
    ELSE (IF a % 2 = 1 \/ b % 2 = 1 THEN 1 ELSE 0) + 2 * BitOr(a \div 2, b \div 2)

Shl(a, n) == a * 2^n
Shr(a, n) == a \div 2^n

(***************************************************************************)
(* canvas_16bpp_to_32bpp (line 101-110).                                   *)
(***************************************************************************)
\* A bug the expansion could have: the low bits are left zero.
canvas_16bpp_to_32bpp_ZeroFill(color) ==
    LET r1 == Shl(BitAnd(color, 31), 3)
        r2 == BitOr(r1, Shl(BitAnd(color, 992), 6))
    IN  BitOr(r2, Shl(BitAnd(color, 31744), 9))

\* A bug the expansion could have: the low bit of the blue component is masked
\* away (0x001e for 0x001f), so two neighbouring values expand alike.
canvas_16bpp_to_32bpp_DropLowBit(color) ==
    LET r1 == BitOr(Shl(BitAnd(color, 30), 3), Shr(BitAnd(color, 28), 2))
        r2 == BitOr(r1, BitOr(Shl(BitAnd(color, 992), 6), Shl(BitAnd(color, 896), 1)))
    IN  BitOr(r2, BitOr(Shl(BitAnd(color, 31744), 9), Shl(BitAnd(color, 28672), 4)))

\* The masks: 0x001f = 31, 0x001c = 28, 0x03e0 = 992, 0x0380 = 896,
\* 0x7c00 = 31744, 0x7000 = 28672.
canvas_16bpp_to_32bpp(color) ==
    LET r1 == BitOr(Shl(BitAnd(color, 31), 3), Shr(BitAnd(color, 28), 2))
        r2 == BitOr(r1, BitOr(Shl(BitAnd(color, 992), 6), Shl(BitAnd(color, 896), 1)))
    IN  BitOr(r2, BitOr(Shl(BitAnd(color, 31744), 9), Shl(BitAnd(color, 28672), 4)))

PxRest ==
    /\ px_color = 0
    /\ px_ret = -1

\* The argument is a 16-bit pixel (canvas_copy_16bpp passes a uint16_t).
UINT16_MAX == 65535

PxInit ==
    /\ px_color \in 0..UINT16_MAX
    /\ px_ret = -1

PxConvert ==
    /\ px_ret = -1
    /\ px_ret' = canvas_16bpp_to_32bpp(px_color)
    /\ UNCHANGED px_color
    /\ PxFrame

PxNext == PxConvert

(***************************************************************************)
(* canvas_bitmap_to_surface (line 431-486) and the canvas_copy_* functions *)
(* (line 323-429).                                                         *)
(***************************************************************************)
BITMAP_FMT_1BIT_LE == "1BIT_LE"
BITMAP_FMT_1BIT_BE == "1BIT_BE"
BITMAP_FMT_4BIT_BE == "4BIT_BE"
BITMAP_FMT_8BIT == "8BIT"
BITMAP_FMT_16BIT == "16BIT"
BITMAP_FMT_24BIT == "24BIT"
BITMAP_FMT_32BIT == "32BIT"
BITMAP_FMT_RGBA == "RGBA"
BITMAP_FMT_INVALID == "INVALID"

BitmapFormats == {BITMAP_FMT_INVALID, BITMAP_FMT_1BIT_LE, BITMAP_FMT_1BIT_BE,
                  BITMAP_FMT_4BIT_BE, BITMAP_FMT_8BIT, BITMAP_FMT_16BIT,
                  BITMAP_FMT_24BIT, BITMAP_FMT_32BIT, BITMAP_FMT_RGBA}

\* The bytes one row of width pixels takes.
BytesPerRow(format, width) ==
    CASE format \in {BITMAP_FMT_32BIT, BITMAP_FMT_RGBA} -> 4 * width
      [] format = BITMAP_FMT_24BIT -> 3 * width
      [] format = BITMAP_FMT_16BIT -> 2 * width
      [] format = BITMAP_FMT_8BIT -> width
      [] format = BITMAP_FMT_4BIT_BE -> (width + 1) \div 2
      [] OTHER -> (width + 7) \div 8

\* Row contents: a row repeats one of these byte patterns.
BytePatterns == {<<0>>, <<1, 2, 0>>, <<16, 33, 2>>, <<240, 129>>}
PatternRow(p, n) == [k \in 1..n |-> p[((k - 1) % Len(p)) + 1]]

\* Palettes: num_ents entries, entry i holding PaletteColor(i).
PaletteColor(i) == 4096 + 257 * i
PaletteOf(n) ==
    [present |-> TRUE, num_ents |-> n, ents |-> [i \in 1..n |-> PaletteColor(i - 1)]]
Palettes == {PaletteOf(n) : n \in {1, 2, 3, 16}}
\* palette = NULL
NoPalette == [present |-> FALSE, num_ents |-> 0, ents |-> <<>>]
BeyondWords == {0, 16777215}

\* A row loop body ends in a failed ASSERT, or with the pixels it wrote.
FATAL == [ok |-> FALSE, pixels |-> <<>>]
Written(pixels) == [ok |-> TRUE, pixels |-> pixels]
UNWRITTEN == -1

\* palette->ents[i]: past num_ents the read leaves the palette.
Ents(palette, i, beyond) ==
    IF i < palette.num_ents THEN palette.ents[i + 1] ELSE beyond

\* test_bit_be (line 117-120)
test_bit_be(addr, bit) ==
    IF BitAnd(addr[Shr(bit, 3) + 1], Shr(128, BitAnd(bit, 7))) # 0 THEN 1 ELSE 0

\* The body of the row loop of canvas_copy_32bpp: memcpy of width << 2
\* bytes; a pixel is the four bytes copied, in memory order.
Row32(src, width) ==
    Written([k \in 1..width |->
                <<src[4 * k - 3], src[4 * k - 2], src[4 * k - 1], src[4 * k]>>])

\* canvas_copy_24bpp: three bytes per pixel; the fourth byte of the
\* destination pixel is skipped (it is not part of the value here).
Row24(src, width) ==
    Written([k \in 1..width |-> src[3 * k - 2] + 256 * src[3 * k - 1] + 65536 * src[3 * k]])

\* canvas_copy_16bpp: each uint16_t through canvas_16bpp_to_32bpp.
Row16(src, width) ==
    Written([k \in 1..width |-> canvas_16bpp_to_32bpp(src[2 * k - 1] + 256 * src[2 * k])])

\* canvas_copy_8bpp: ASSERT(*src_line < palette->num_ents) on every pixel.
Row8(src, width, palette, beyond) ==
    IF \E k \in 1..width : ~(src[k] < palette.num_ents)
    THEN FATAL
    ELSE Written([k \in 1..width |-> Ents(palette, src[k], beyond)])

\* canvas_copy_4bpp_be: the loop over width >> 1 bytes asserts and converts
\* both nibbles of *now; for an odd width the last pixel is then read from
\* *src, the row's first byte, with no ASSERT.
Row4(src, width, palette, beyond) ==
    LET pairs == Shr(width, 1) IN
    IF \E i \in 1..pairs :
          \/ ~(BitAnd(src[i], 15) < palette.num_ents)
          \/ ~(BitAnd(Shr(src[i], 4), 15) < palette.num_ents)
    THEN FATAL
    ELSE Written([k \in 1..width |->
            IF k <= 2 * pairs
            THEN IF k % 2 = 1
                 THEN Ents(palette, BitAnd(Shr(src[(k + 1) \div 2], 4), 15), beyond)
                 ELSE Ents(palette, BitAnd(src[k \div 2], 15), beyond)
            ELSE Ents(palette, BitAnd(Shr(src[1], 4), 15), beyond)])

\* canvas_copy_1bpp_be: fore_color = ents[1], back_color = ents[0], read
\* with no ASSERT.
Row1(src, width, palette, beyond) ==
    LET fore_color == Ents(palette, 1, beyond)
        back_color == Ents(palette, 0, beyond)
    IN  Written([k \in 1..width |->
                    IF test_bit_be(src, k - 1) = 1 THEN fore_color ELSE back_color])

\* The conversion of one source row by the copy function of the format
\* (the switch at line 464-484); a format with no case writes nothing.
ConvertRow(format, src, width, palette, beyond) ==
    CASE format \in {BITMAP_FMT_32BIT, BITMAP_FMT_RGBA} -> Row32(src, width)
      [] format = BITMAP_FMT_24BIT -> Row24(src, width)
      [] format = BITMAP_FMT_16BIT -> Row16(src, width)
      [] format = BITMAP_FMT_8BIT -> Row8(src, width, palette, beyond)
      [] format = BITMAP_FMT_4BIT_BE -> Row4(src, width, palette, beyond)
      [] format = BITMAP_FMT_1BIT_BE -> Row1(src, width, palette, beyond)
      [] OTHER -> Written([k \in 1..width |-> UNWRITTEN])

HasCopy(format) ==
    format \in {BITMAP_FMT_32BIT, BITMAP_FMT_RGBA, BITMAP_FMT_24BIT, BITMAP_FMT_16BIT,
                BITMAP_FMT_8BIT, BITMAP_FMT_4BIT_BE, BITMAP_FMT_1BIT_BE}
NeedsPalette(format) ==
    format \in {BITMAP_FMT_8BIT, BITMAP_FMT_4BIT_BE, BITMAP_FMT_1BIT_BE}

\* The row loop "for (; src != end; src += src_stride, dest += dest_stride)":
\* source row i is converted into destination row dest; rows holds the
\* surface so far.  The result: whether every ASSERT held, and the rows.
RECURSIVE CopyRows(_, _, _, _, _, _, _)
CopyRows(rows, i, dest, dest_stride, b, palette, beyond) ==
    IF i > b.y THEN [ok |-> TRUE, rows |-> rows]
    ELSE LET line == ConvertRow(b.format, b.data[i], b.x, palette, beyond) IN
         IF ~line.ok THEN [ok |-> FALSE, rows |-> <<>>]
         ELSE CopyRows([rows EXCEPT ![dest] = line.pixels], i + 1, dest + dest_stride,
                       dest_stride, b, palette, beyond)

\* Where the destination starts and how it advances, in rows (line 456-462).
\* A bug this could have: the rows are always written top row first.
DestStart_NoFlip(b) == [dest |-> 1, dest_stride |-> 1]

DestStart(b) ==
    IF ~b.top_down
    THEN [dest |-> 1 + (b.y - 1), dest_stride |-> -1]
    ELSE [dest |-> 1, dest_stride |-> 1]

\* canvas_bitmap_to_surface(canvas, bitmap, palette).
canvas_bitmap_to_surface(b, palette, beyond, created) ==
    IF ~created
    THEN [status |-> "error", rows |-> <<>>]            \* "create surface failed"
    ELSE IF ~b.top_down /\ ~(b.y > 0)
    THEN [status |-> "error", rows |-> <<>>]            \* ASSERT(bitmap->y > 0)
    ELSE IF NeedsPalette(b.format) /\ ~palette.present
    THEN [status |-> "error", rows |-> <<>>]            \* "no palette"
    ELSE LET blank == [r \in 1..b.y |-> [k \in 1..b.x |-> UNWRITTEN]]
             d == DestStart(b)
             r == CopyRows(blank, 1, d.dest, d.dest_stride, b, palette, beyond)
         IN  IF ~r.ok
             THEN [status |-> "error", rows |-> <<>>]        \* a failed ASSERT
             ELSE [status |-> "ok", rows |-> r.rows]

NoBitmap == [format |-> BITMAP_FMT_INVALID, x |-> 0, y |-> 0, stride |-> 0,
             top_down |-> TRUE, data |-> <<>>]
NoOutcome == [status |-> "none", rows |-> <<>>]

BmpRest ==
    /\ bmp = NoBitmap
    /\ bmp_palette = NoPalette
    /\ bmp_beyond = 0
    /\ bmp_created = TRUE
    /\ bmp_out = NoOutcome

\* Any bitmap of the protocol within the bounds, with or without a palette.
BmpInit ==
    /\ \E format \in BitmapFormats, x \in 1..MaxW, y \in 0..MaxH, top_down \in BOOLEAN :
          \E pats \in [1..y -> BytePatterns] :
             bmp = [format |-> format, x |-> x, y |-> y,
                    stride |-> BytesPerRow(format, x), top_down |-> top_down,
                    data |-> [i \in 1..y |-> PatternRow(pats[i], BytesPerRow(format, x))]]
    /\ bmp_palette \in {NoPalette} \cup Palettes
    /\ bmp_beyond \in BeyondWords
    /\ bmp_created \in BOOLEAN
    /\ bmp_out = NoOutcome

BmpToSurface ==
    /\ bmp_out.status = "none"
    /\ bmp_out' = canvas_bitmap_to_surface(bmp, bmp_palette, bmp_beyond, bmp_created)
    /\ UNCHANGED <<bmp, bmp_palette, bmp_beyond, bmp_created>>
    /\ BmpFrame

BmpNext == BmpToSurface

(***************************************************************************)
(* canvas_A1_invers (line 984-1008) and canvas_surf_to_invers (line        *)
(* 1010-1043), called as canvas_handle_inverse_user_data calls them.       *)
(***************************************************************************)
CAIRO_FORMAT_A1 == "A1"
CAIRO_FORMAT_RGB24 == "RGB24"
CAIRO_FORMAT_INVALID == "INVALID"

\* ALIGN(a, b) (line 66): (a + (b - 1)) & ~(b - 1), b a power of two.
ALIGN(a, b) == ((a + (b - 1)) \div b) * b

\* The bytes of a row of an A1 image surface (rows are 32-bit aligned).
A1Stride(width, height) == IF height = 0 THEN 0 ELSE 4 * ((width + 31) \div 32)

\* What a surface creation that failed returns: no size, no data.
NilSurface == [format |-> CAIRO_FORMAT_INVALID, width |-> 0, height |-> 0,
               stride |-> 0, status |-> "error", rows |-> <<>>]

\* ~b of a uint8_t, stored into a uint8_t.
NotByte(b) == 255 - b

\* ~w & 0x00ffffff of a uint32_t.
NotWordMasked(w) == [top |-> 0, rgb |-> 16777215 - w.rgb]

\* canvas_A1_invers(src_surf): the first line_size bytes of each row are
\* complemented; the rest of the row is as cairo_image_surface_create left it
\* (cleared).  A failed creation is returned as it is.
canvas_A1_invers(src_surf, created) ==
    LET width == src_surf.width
        height == src_surf.height
        line_size == Shr(ALIGN(width, 8), 3)
    IN  IF ~created
        THEN [fatal |-> FALSE, surface |-> NilSurface]
        ELSE [fatal |-> FALSE,
              surface |->
                 [format |-> CAIRO_FORMAT_A1, width |-> width, height |-> height,
                  stride |-> A1Stride(width, height), status |-> "ok",
                  rows |-> [r \in 1..height |->
                              [k \in 1..A1Stride(width, height) |->
                                  IF k <= line_size THEN NotByte(src_surf.rows[r][k])
                                  ELSE 0]]]]

\* canvas_surf_to_invers(surf)
canvas_surf_to_invers(surf, created) ==
    IF surf.format # CAIRO_FORMAT_RGB24
    THEN [fatal |-> TRUE, surface |-> NilSurface]       \* ASSERT(format == RGB24)
    ELSE IF ~created
    THEN [fatal |-> TRUE, surface |-> NilSurface]       \* "create surface failed"
    ELSE [fatal |-> FALSE,
          surface |->
             [format |-> CAIRO_FORMAT_RGB24, width |-> surf.width,
              height |-> surf.height,
              stride |-> IF surf.height = 0 THEN 0 ELSE 4 * surf.width,   \* cairo's own
              status |-> "ok",
              rows |-> [r \in 1..surf.height |->
                          [k \in 1..surf.width |-> NotWordMasked(surf.rows[r][k])]]]]

\* Stored words of an RGB24 surface: the top byte is whatever was stored
\* (canvas_copy_32bpp copies all four bytes of a pixel).
WordPatterns ==
    {<<[top |-> 0, rgb |-> 0]>>,
     <<[top |-> 0, rgb |-> 1193046], [top |-> 0, rgb |-> 16777215]>>,
     <<[top |-> 255, rgb |-> 16777215], [top |-> 0, rgb |-> 255]>>,
     <<[top |-> 128, rgb |-> 65280]>>}

IvsNoSurface == NilSurface

IvsRest ==
    /\ ivs_src = IvsNoSurface
    /\ ivs_out = <<>>

\* Any A1 or RGB24 image surface within the bounds.
IvsInit ==
    /\ \E width \in 1..MaxIvsW, height \in 0..MaxIvsH :
          \/ \E pats \in [1..height -> BytePatterns] :
                ivs_src = [format |-> CAIRO_FORMAT_A1, width |-> width,
                           height |-> height, stride |-> A1Stride(width, height),
                           status |-> "ok",
                           rows |-> [r \in 1..height |->
                                        PatternRow(pats[r], A1Stride(width, height))]]
          \/ \E pats \in [1..height -> WordPatterns] :
                ivs_src = [format |-> CAIRO_FORMAT_RGB24, width |-> width,
                           height |-> height,
                           stride |-> IF height = 0 THEN 0 ELSE 4 * width,
                           status |-> "ok",
                           rows |-> [r \in 1..height |-> PatternRow(pats[r], width)]]
    /\ ivs_out = <<>>

\* The surface the next call is given.
IvsCurrent == IF ivs_out = <<>> THEN ivs_src ELSE ivs_out[Len(ivs_out)].surface

\* One inversion (line 1062-1066): canvas_A1_invers for an A1 surface,
\* canvas_surf_to_invers for any other; the surface creation inside may fail.
IvsInvert ==
    /\ Len(ivs_out) < MaxIvsCalls
    /\ ivs_out # <<>> => ~ivs_out[Len(ivs_out)].fatal
    /\ IvsCurrent.status = "ok"
    /\ \E created \in BOOLEAN :
          ivs_out' = Append(ivs_out,
                            IF IvsCurrent.format = CAIRO_FORMAT_A1
                            THEN canvas_A1_invers(IvsCurrent, created)
                            ELSE canvas_surf_to_invers(IvsCurrent, created))
    /\ UNCHANGED ivs_src
    /\ IvsFrame

IvsNext == IvsInvert

(***************************************************************************)
(* canvas_get_str_mask (line 1300-1351), canvas_put_glyph_bits (line       *)
(* 1224-1298), canvas_put_bits and __canvas_put_bits (line 1166-1222),     *)
(* revers_bits (line 864-875).                                             *)
(***************************************************************************)
MIN(x, y) == IF x <= y THEN x ELSE y
MAX(x, y) == IF x >= y THEN x ELSE y

\* One round of the loop of revers_bits.
ReversRound(ret, byte, i) ==
    LET shift == 7 - i * 2
        r1 == BitOr(ret, Shl(BitAnd(byte, Shl(1, i)), shift))
    IN  BitOr(r1, Shr(BitAnd(byte, Shr(128, i)), shift)) % 256

revers_bits(byte) ==
    ReversRound(ReversRound(ReversRound(ReversRound(0, byte, 0), byte, 1), byte, 2),
                byte, 3)

\* canvas_raster_glyph_box
canvas_raster_glyph_box(glyph) ==
    LET top == glyph.render_pos.y + glyph.glyph_origin.y
        left == glyph.render_pos.x + glyph.glyph_origin.x
    IN  [top |-> top, bottom |-> top + glyph.height,
         left |-> left, right |-> left + glyph.width]

\* rect_union and rect_offset (rect.h).
rect_union(dest, r) ==
    [top |-> MIN(dest.top, r.top), left |-> MIN(dest.left, r.left),
     bottom |-> MAX(dest.bottom, r.bottom), right |-> MAX(dest.right, r.right)]

rect_offset(r, dx, dy) ==
    [top |-> r.top + dy, bottom |-> r.bottom + dy,
     left |-> r.left + dx, right |-> r.right + dx]

\* The bytes of a glyph's data (canvas_next_raster_glyph).
GlyphDataSize(width, height, bpp) == Shr(ALIGN(width * bpp, 8) * height, 3)

\* A 32-bit value that is not negative, as it lies in memory.
LE32(v) == <<v % 256, (v \div 256) % 256, (v \div 65536) % 256, (v \div 16777216) % 256>>

\* The first bytes of a RasterGlyph in memory: its render_pos.
GlyphHeadBytes(glyph) == LE32(glyph.render_pos.x) \o LE32(glyph.render_pos.y)

\* src[off] of a glyph, off counted from glyph->data: past the data the read
\* leaves the glyph and gets the bytes that lie behind it.
GlyphByte(glyph, off) ==
    IF off < Len(glyph.data) THEN glyph.data[off + 1]
    ELSE glyph.after[off - Len(glyph.data) + 1]

\* __canvas_put_bits on one destination row (a sequence of bytes), for the
\* build without GL_CANVAS (line 1187-1208) and with it (line 1167-1185).
canvas_put_bits_1(row, offset0, val0, n, gl) ==
    LET d == Shr(offset0, 3) + 1
        offset == BitAnd(offset0, 7)
        now == MIN(8 - offset, n)
        n2 == n - now
    IN  IF ~gl
        THEN LET mask == Shl(Shl(1, now) - 1, offset) % 256
                 val == revers_bits(val0)
                 row1 == [row EXCEPT ![d] = BitOr(BitAnd(Shl(val, offset), mask), row[d])]
             IN  IF n2 # 0
                 THEN [row1 EXCEPT ![d + 1] =
                          BitOr(BitAnd(Shr(val, now), Shl(1, n2) - 1), row1[d + 1])]
                 ELSE row1
        ELSE LET mask == Shr(256 - Shl(1, 8 - now), offset)
                 row1 == [row EXCEPT ![d] = BitOr(BitAnd(Shr(val0, offset), mask), row[d])]
             IN  IF n2 # 0
                 THEN [row1 EXCEPT ![d + 1] =
                          BitOr(BitAnd(Shl(val0, now), 256 - Shl(1, 8 - n2)), row1[d + 1])]
                 ELSE row1

\* canvas_put_bits: n bits from src (an offset into the glyph's data) into
\* the row at bit dest_offset, a byte of source at a time.
RECURSIVE canvas_put_bits(_, _, _, _, _, _)
canvas_put_bits(row, dest_offset, glyph, src, n, gl) ==
    IF n = 0 THEN row
    ELSE LET now == MIN(n, 8) IN
         canvas_put_bits(canvas_put_bits_1(row, dest_offset, GlyphByte(glyph, src), now, gl),
                         dest_offset + now, glyph, src + 1, n - now, gl)

\* The sample that iteration j (from 0) of the row loop composes into
\* column i (from 0) of the glyph's box: MAX(dest[i], ...) stored into a
\* uint8_t.  A 4bpp row holds two samples a byte; an 8bpp row one.
Compose4(old, glyph, src, i) ==
    IF i % 2 = 0
    THEN MAX(old, BitAnd(GlyphByte(glyph, src + i \div 2), 240)) % 256
    ELSE MAX(old, Shl(GlyphByte(glyph, src + i \div 2), 4)) % 256

Compose8(old, glyph, src, i) == MAX(old, GlyphByte(glyph, src + i))

\* Where the source pointer stands in iteration j of the row loop: case 1
\* and case 4 step src back by a row before the row is read; case 8 starts
\* at src + width * lines and steps back after the row was read.
SrcOfIteration(bpp, width, lines, j) ==
    CASE bpp = 1 -> Shr(ALIGN(width, 8), 3) * (lines - 1 - j)
      [] bpp = 4 -> Shr(ALIGN(width * 4, 8), 3) * (lines - 1 - j)
      [] OTHER -> width * lines - j * width

\* canvas_put_glyph_bits(glyph, bpp, dest, dest_stride, bounds), dest and
\* dest_stride counted in rows of the mask (rows from 1).
canvas_put_glyph_bits(glyph, bpp, rows, dest, dest_stride, bounds, gl) ==
    LET box0 == canvas_raster_glyph_box(glyph)
        glyph_box == rect_offset(box0, -bounds.left, -bounds.top)
        lines == glyph_box.bottom - glyph_box.top
        width == glyph_box.right - glyph_box.left
        first == dest + glyph_box.top * dest_stride
        \* the iteration that writes mask row r, if any
        IterOf(r) == (r - first) * dest_stride
        Covered(r) == IterOf(r) \in 0..(lines - 1)
    IN  IF ~(box0.top >= bounds.top /\ box0.bottom <= bounds.bottom)
        THEN [ok |-> FALSE, rows |-> <<>>]
        ELSE IF ~(box0.left >= bounds.left /\ box0.right <= bounds.right)
        THEN [ok |-> FALSE, rows |-> <<>>]
        ELSE IF bpp = 1
        THEN [ok |-> TRUE,
              rows |-> [r \in DOMAIN rows |->
                          IF Covered(r)
                          THEN canvas_put_bits(rows[r], glyph_box.left, glyph,
                                               SrcOfIteration(1, width, lines, IterOf(r)),
                                               width, gl)
                          ELSE rows[r]]]
        ELSE IF bpp \in {4, 8}
        THEN [ok |-> TRUE,
              rows |-> [r \in DOMAIN rows |->
                          [c \in DOMAIN rows[r] |->
                              LET i == c - 1 - glyph_box.left
                                  src == SrcOfIteration(bpp, width, lines, IterOf(r))
                              IN  IF Covered(r) /\ i \in 0..(width - 1)
                                  THEN IF bpp = 4
                                       THEN Compose4(rows[r][c], glyph, src, i)
                                       ELSE Compose8(rows[r][c], glyph, src, i)
                                  ELSE rows[r][c]]]]
        ELSE [ok |-> FALSE, rows |-> <<>>]                 \* "invalid bpp"

\* The loop over the glyphs of the string (line 1337-1346).
RECURSIVE PutGlyphs(_, _, _, _, _, _)
PutGlyphs(rows, glyphs, bpp, bounds, height, gl) ==
    IF glyphs = <<>> THEN [ok |-> TRUE, rows |-> rows]
    ELSE LET r == IF gl
                  THEN canvas_put_glyph_bits(Head(glyphs), bpp, rows, 1 + (height - 1),
                                             -1, bounds, gl)
                  ELSE canvas_put_glyph_bits(Head(glyphs), bpp, rows, 1, 1, bounds, gl)
         IN  IF ~r.ok THEN r
             ELSE PutGlyphs(r.rows, Tail(glyphs), bpp, bounds, height, gl)

\* The union of the glyph boxes (line 1313-1326).
RECURSIVE StrBounds(_, _)
StrBounds(bounds, glyphs) ==
    IF glyphs = <<>> THEN bounds
    ELSE StrBounds(rect_union(bounds, canvas_raster_glyph_box(Head(glyphs))), Tail(glyphs))

StrFailed == [status |-> "error", rows |-> <<>>, pos |-> [x |-> 0, y |-> 0]]

\* canvas_get_str_mask(canvas, str, bpp, pos).  The mask is an A1 surface for
\* bpp 1 (rows of A1Stride bytes) and an A8 surface otherwise (a byte a
\* pixel), cleared when created.
canvas_get_str_mask(glyphs, bpp, created, gl) ==
    IF ~(Len(glyphs) > 0)
    THEN StrFailed                                          \* ASSERT(str->length > 0)
    ELSE LET bounds == StrBounds(canvas_raster_glyph_box(Head(glyphs)), Tail(glyphs))
             width == bounds.right - bounds.left
             height == bounds.bottom - bounds.top
             blank == [r \in 1..height |->
                         [c \in 1..(IF bpp = 1 THEN A1Stride(width, height) ELSE width) |-> 0]]
             r == PutGlyphs(blank, glyphs, bpp, bounds, height, gl)
         IN  IF ~created
             THEN StrFailed                                 \* "create surface failed"
             ELSE IF ~r.ok
             THEN StrFailed
             ELSE [status |-> "ok", rows |-> r.rows,
                   pos |-> [x |-> bounds.left, y |-> bounds.top]]

\* Glyph contents: the data of a glyph repeats one of these byte patterns.
GlyphPatterns == {<<128>>, <<64>>, <<64, 245, 16>>}
\* The bytes a glyph of the string can start with.
GlyphHeads ==
    {GlyphHeadBytes([render_pos |-> [x |-> px, y |-> py]]) :
        px \in 0..MaxGPos, py \in 0..MaxGPos}

\* What follows the string in memory, as far as a read can get.
AfterTails ==
    {[i \in 1..Len(LE32(0) \o LE32(0)) |-> 0], [i \in 1..Len(LE32(0) \o LE32(0)) |-> 255],
     [i \in 1..Len(LE32(0) \o LE32(0)) |-> 200 + i]}
BppValues == {1, 2, 4, 8}

GlyphsOf(bpp) ==
    {[render_pos |-> [x |-> px, y |-> py], glyph_origin |-> [x |-> 0, y |-> 0],
      width |-> w, height |-> h,
      data |-> PatternRow(p, GlyphDataSize(w, h, bpp)), after |-> a] :
        px \in 0..MaxGPos, py \in 0..MaxGPos, w \in 1..MaxGW, h \in 1..MaxGH,
        p \in GlyphPatterns, a \in AfterTails \cup GlyphHeads}

StrNoOutcome == [status |-> "none", rows |-> <<>>, pos |-> [x |-> 0, y |-> 0]]

StrRest ==
    /\ str_gl = FALSE
    /\ str_bpp = 8
    /\ str_glyphs = <<>>
    /\ str_out = StrNoOutcome

\* Any string of 1..MaxGlyphs glyphs within the bounds, any bpp, either build.
\* The glyphs lie one behind the other (canvas_next_raster_glyph): behind the
\* data of a glyph that is not the last lies the next glyph.
StrInit ==
    /\ str_gl \in BOOLEAN
    /\ str_bpp \in BppValues
    /\ \E n \in 1..MaxGlyphs :
          /\ str_glyphs \in [1..n -> GlyphsOf(str_bpp)]
          /\ \A k \in 1..(n - 1) : str_glyphs[k].after = GlyphHeadBytes(str_glyphs[k + 1])
    /\ str_out = StrNoOutcome

StrGetMask ==
    /\ str_out.status = "none"
    /\ \E created \in BOOLEAN :
          str_out' = canvas_get_str_mask(str_glyphs, str_bpp, created, str_gl)
    /\ UNCHANGED <<str_gl, str_bpp, str_glyphs>>
    /\ StrFrame

StrNext == StrGetMask

(***************************************************************************)
(* canvas_localize_palette (line 215-224), canvas_get_palett (line         *)
(* 490-510), canvas_get_bits (line 664-683 and 688-709) and canvas_get_lz  *)
(* (line 512-608).                                                         *)
(***************************************************************************)
PalAddrs == 1..MaxPalAddr

\* Flags of a palette reference: BITMAP_PAL_FROM_CACHE, BITMAP_PAL_CACHE_ME.
PalFlags == [from_cache : BOOLEAN, cache_me : BOOLEAN]
NoFlags == [from_cache |-> FALSE, cache_me |-> FALSE]

\* The external palette cache, as the interface gives it: put(palette)
\* stores the palette under its id, get(id) lends the stored palette.
palette_cache_put(cache, id, palette) == [cache EXCEPT ![id] = palette]
palette_cache_get(cache, id) == cache[id]

\* canvas_localize_palette(canvas, palette): in place.
canvas_localize_palette(shift, palette) ==
    IF shift = 5
    THEN [palette EXCEPT !.ents = [i \in DOMAIN palette.ents |->
                                      canvas_16bpp_to_32bpp(palette.ents[i])]]
    ELSE palette

\* canvas_get_palett(canvas, base_palette, flags): the palette the returned
\* pointer refers to, whether it is lent by the cache, the wire buffers and
\* the cache afterwards, and the palette_cache_get calls made.  Without
\* FromCache the pointer returned is the wire buffer itself.
canvas_get_palett(shift, wire, cache, base_palette, flags) ==
    IF base_palette = NULL
    THEN [palette |-> NoPalette, borrowed |-> FALSE, wire |-> wire, cache |-> cache,
          gets |-> 0]
    ELSE IF flags.from_cache
    THEN [palette |-> palette_cache_get(cache, base_palette), borrowed |-> TRUE,
          wire |-> wire, cache |-> cache, gets |-> 1]
    ELSE LET localized == canvas_localize_palette(shift, wire[base_palette]) IN
         IF flags.cache_me
         THEN [palette |-> localized, borrowed |-> FALSE,
               wire |-> [wire EXCEPT ![base_palette] = localized],
               cache |-> palette_cache_put(cache, base_palette, localized), gets |-> 0]
         ELSE [palette |-> localized, borrowed |-> FALSE,
               wire |-> [wire EXCEPT ![base_palette] = localized],
               cache |-> cache, gets |-> 0]

\* The outcome of a decode call: the palette the pixels were made with, the
\* surface's rows (canvas_get_bits), what was allocated, left live and freed
\* (canvas_get_lz), and the state the call leaves.
Outcome(status, used, rows, res, releases, bad, extra) ==
    [status |-> status, used |-> used, rows |-> rows, wire |-> res.wire,
     cache |-> res.cache, gets |-> res.gets, releases |-> releases, bad_rel |-> bad,
     allocated |-> extra.allocated, live |-> extra.live, freed |-> extra.freed,
     hdr |-> extra.hdr]

\* What quic_decode_begin and lz_decode_begin report: shaped like NoHeader.
NoLzHeader == [type |-> "none", same_size |-> TRUE, pixels_ok |-> TRUE]
NoLz == [allocated |-> FALSE, live |-> 0, freed |-> FALSE, hdr |-> NoLzHeader]

\* A canvas_bitmap_to_surface call that ended in CANVAS_ERROR: behind
\* surface_create no error path destroys the surface (line 446-488), so it
\* stays live unless it was the creation that failed.
BitsFailed(created) == [NoLz EXCEPT !.live = IF created THEN 1 ELSE 0]

\* canvas_get_bits of the build with CAIRO_CANVAS_CACHE (line 664-683).
\* A canvas_bitmap_to_surface that ends in CANVAS_ERROR ends the call there.
canvas_get_bits(shift, wire, cache, bitmap, flags, created) ==
    LET res == canvas_get_palett(shift, wire, cache, bitmap.palette, flags)
        surface == canvas_bitmap_to_surface(bitmap, res.palette, 0, created)
    IN  IF surface.status # "ok"
        THEN Outcome("error", res.palette, <<>>, res, 0, 0, BitsFailed(created))
        ELSE IF res.palette.present /\ flags.from_cache
        THEN Outcome("ok", res.palette, surface.rows, res, 1,
                     IF res.borrowed THEN 0 ELSE 1, NoLz)
        ELSE Outcome("ok", res.palette, surface.rows, res, 0, 0, NoLz)

\* canvas_get_bits of the build without it (line 688-709): in 16-bit mode a
\* malloc'ed copy of the palette is localized, used and freed.
canvas_get_bits_nocache(shift, wire, cache, bitmap, created) ==
    LET same == [wire |-> wire, cache |-> cache, gets |-> 0]
        palette == IF bitmap.palette = NULL THEN NoPalette
                   ELSE IF shift = 5
                   THEN canvas_localize_palette(shift, wire[bitmap.palette])
                   ELSE wire[bitmap.palette]
        surface == canvas_bitmap_to_surface(bitmap, palette, 0, created)
    IN  IF surface.status # "ok"
        THEN Outcome("error", palette, <<>>, same, 0, 0, BitsFailed(created))
        ELSE Outcome("ok", palette, surface.rows, same, 0, 0, NoLz)

LZ_IMAGE_TYPES == {"INVALID", "PLT1_LE", "PLT1_BE", "PLT4_LE", "PLT4_BE", "PLT8",
                   "RGB16", "RGB24", "RGB32", "RGBA", "OTHER"}
\* A bug the switch could have: every reported type is taken.
LZ_SUPPORTED_Any == LZ_IMAGE_TYPES

LZ_SUPPORTED == {"RGBA", "RGB32", "RGB24", "RGB16", "PLT1_LE", "PLT1_BE", "PLT4_LE",
                 "PLT4_BE", "PLT8"}

\* What the codec does in a call: lz_decode_begin reports an error through
\* usr->error or returns a header; lz_decode reports an error or returns.
\* The header gives the type, whether width and height equal the
\* descriptor's, and whether n_pixels equals width * height.
LzHeaderTypes == {"INVALID", "PLT8", "RGB16", "RGB32", "OTHER"}
LzHeaders ==
    [type : LzHeaderTypes, same_size : BOOLEAN, pixels_ok : {TRUE}] \cup
    [type : {"PLT8", "RGB32"}, same_size : {TRUE}, pixels_ok : {FALSE}]
LzCodecRuns ==
    {[begin_error |-> TRUE, hdr |-> NoLzHeader, decode_error |-> FALSE]} \cup
    [begin_error : {FALSE}, hdr : LzHeaders, decode_error : BOOLEAN]

\* canvas_get_lz(canvas, image, invers) on image = [type, palette, flags].
\*   run      what the codec does
\*   created  alloc_lz_image_surface gives a surface
\*   seen     the setjmp handler finds decomp_buf set: decomp_buf is a
\*            non-volatile local assigned after the setjmp, so after the
\*            longjmp it holds the pointer into the surface's data or the
\*            NULL it held at the setjmp
\* The handler frees decomp_buf if it finds it set and ends in CANVAS_ERROR;
\* lz_data->decode_data.out_surface is not destroyed on any failing path, and
\* no path calls palette_cache_release.
canvas_get_lz(shift, wire, cache, image, run, created, seen) ==
    LET res == IF image.type = IMAGE_TYPE_LZ_PLT
               THEN canvas_get_palett(shift, wire, cache, image.palette, image.flags)
               ELSE canvas_get_palett(shift, wire, cache, NULL, NoFlags)
        hdr == run.hdr
        none == [allocated |-> FALSE, live |-> 0, freed |-> FALSE, hdr |-> NoLzHeader]
        early == [allocated |-> FALSE, live |-> 0, freed |-> FALSE, hdr |-> hdr]
    IN  IF image.type \notin {IMAGE_TYPE_LZ_RGB, IMAGE_TYPE_LZ_PLT}
        THEN Outcome("error", NoPalette, <<>>,
                     [wire |-> wire, cache |-> cache, gets |-> 0], 0, 0, none)
        ELSE IF run.begin_error                       \* longjmp from lz_decode_begin
        THEN Outcome("error", res.palette, <<>>, res, 0, 0, none)
        ELSE IF hdr.type \notin LZ_SUPPORTED          \* "unexpected LZ image type"
        THEN Outcome("error", res.palette, <<>>, res, 0, 0, early)
        ELSE IF ~hdr.same_size                        \* ASSERT(width ==, height ==)
        THEN Outcome("error", res.palette, <<>>, res, 0, 0, early)
        ELSE IF ~(image.type = IMAGE_TYPE_LZ_PLT \/ hdr.pixels_ok)
        THEN Outcome("error", res.palette, <<>>, res, 0, 0, early)
        ELSE IF ~created                              \* alloc_lz_image_surface
        THEN Outcome("error", res.palette, <<>>, res, 0, 0, early)
        ELSE IF run.decode_error                      \* longjmp from lz_decode
        THEN Outcome("error", res.palette, <<>>, res, 0, 0,
                     [allocated |-> TRUE, live |-> 1, freed |-> seen, hdr |-> hdr])
        ELSE Outcome("ok", res.palette, <<>>, res, 0, 0,
                     [allocated |-> TRUE, live |-> 0, freed |-> FALSE, hdr |-> hdr])

\* Palette contents: 16-bit colors in 32-bit words (in 16-bit mode).
PalEntrySets == {<<31, 992>>, <<32767, 0>>}
WirePalette(ents) == [present |-> TRUE, num_ents |-> Len(ents), ents |-> ents]

\* The bitmap the canvas_get_bits calls decode: 8-bit, one row of the two
\* indices 0 and 1, with the palette at the given address (NULL: none).
PalBitmap(palette) ==
    [format |-> BITMAP_FMT_8BIT, x |-> 2, y |-> 1, stride |-> 2, top_down |-> TRUE,
     data |-> <<<<0, 1>>>>, palette |-> palette]

\* What is kept of a decode call: its arguments and its outcome.
Decode(kind, palette, flags, image, out) ==
    [kind |-> kind, palette |-> palette, flags |-> flags, image |-> image,
     status |-> out.status, used |-> out.used, rows |-> out.rows, gets |-> out.gets,
     releases |-> out.releases, bad_rel |-> out.bad_rel, allocated |-> out.allocated,
     live |-> out.live, freed |-> out.freed, hdr |-> out.hdr]

NoDecode ==
    Decode("none", NULL, NoFlags, "none",
           Outcome("none", NoPalette, <<>>,
                   [wire |-> <<>>, cache |-> <<>>, gets |-> 0], 0, 0, NoLz))

\* The state of this part when another specification runs, and before
\* canvas_base_init.
PalRest ==
    /\ cache_build = TRUE
    /\ color_shift = 0
    /\ pal_wire = [a \in PalAddrs |-> NoPalette]
    /\ pal_orig = [a \in PalAddrs |-> NoPalette]
    /\ palette_cache = [a \in PalAddrs |-> NoPalette]
    /\ pal_gets = 0
    /\ pal_releases = 0
    /\ pal_bad_rel = 0
    /\ pal_live = 0
    /\ pal_ncalls = 0
    /\ pal_last = NoDecode

\* canvas_base_init (line 1573-1579) has set color_shift from the depth; the
\* wire holds a palette at each address; the palette cache is empty.
PalInit ==
    /\ cache_build \in BOOLEAN
    /\ color_shift \in {5, 8}
    /\ pal_wire \in [PalAddrs -> {WirePalette(e) : e \in PalEntrySets}]
    /\ pal_orig = pal_wire
    /\ palette_cache = [a \in PalAddrs |-> NoPalette]
    /\ pal_gets = 0
    /\ pal_releases = 0
    /\ pal_bad_rel = 0
    /\ pal_live = 0
    /\ pal_ncalls = 0
    /\ pal_last = NoDecode

\* The state a decode call leaves.
PalApply(kind, palette, flags, image, out) ==
    /\ pal_wire' = out.wire
    /\ palette_cache' = out.cache
    /\ pal_gets' = pal_gets + out.gets
    /\ pal_releases' = pal_releases + out.releases
    /\ pal_bad_rel' = pal_bad_rel + out.bad_rel
    /\ pal_live' = pal_live + out.live
    /\ pal_ncalls' = pal_ncalls + 1
    /\ pal_last' = Decode(kind, palette, flags, image, out)
    /\ UNCHANGED <<cache_build, color_shift, pal_orig>>

\* A palette reference the wire can carry: no palette, an inline palette
\* (with or without CacheMe), or the id of a palette the cache holds.
PalRefOk(palette, flags) ==
    /\ palette = NULL => flags = NoFlags
    /\ (palette # NULL /\ flags.from_cache) => palette_cache[palette].present

\* One canvas_get_bits call.
PalGetBits ==
    /\ color_shift # 0
    /\ pal_ncalls < MaxPalCalls
    /\ \E palette \in {NULL} \cup PalAddrs, flags \in PalFlags, created \in BOOLEAN :
          /\ PalRefOk(palette, flags)
          /\ cache_build \/ flags = NoFlags
          /\ PalApply("bits", palette, flags, IMAGE_TYPE_BITMAP,
                      IF cache_build
                      THEN canvas_get_bits(color_shift, pal_wire, palette_cache,
                                           PalBitmap(palette), flags, created)
                      ELSE canvas_get_bits_nocache(color_shift, pal_wire, palette_cache,
                                                   PalBitmap(palette), created))
    /\ PalFrame

\* One canvas_get_lz call (the function exists in the build with
\* CAIRO_CANVAS_CACHE).
PalGetLz ==
    /\ color_shift # 0
    /\ cache_build
    /\ pal_ncalls < MaxPalCalls
    /\ \E type \in {IMAGE_TYPE_LZ_RGB, IMAGE_TYPE_LZ_PLT, IMAGE_TYPE_OTHER},
          palette \in {NULL} \cup PalAddrs, flags \in PalFlags,
          run \in LzCodecRuns, created \in BOOLEAN, seen \in BOOLEAN :
          /\ PalRefOk(palette, flags)
          /\ type # IMAGE_TYPE_LZ_PLT => palette = NULL
          /\ seen => run.decode_error
          /\ PalApply("lz", palette, flags, type,
                      canvas_get_lz(color_shift, pal_wire, palette_cache,
                                    [type |-> type, palette |-> palette, flags |-> flags],
                                    run, created, seen))
    /\ PalFrame

PalNext == PalGetBits \/ PalGetLz

(***************************************************************************)
(* canvas_get_bitmap_mask (line 877-982).                                  *)
(*   msk_build    the canvas the file is built for: "CAIRO", "GL" or "GDI" *)
(*   msk_bmp      the Bitmap argument                                      *)
(*   msk_plain    the outcome of the call with invers clear                *)
(*   msk_inv      the outcome of the call with invers set                  *)
(***************************************************************************)
MskBuilds == {"CAIRO", "GL", "GDI"}

MskNoOutcome == [status |-> "none", rows |-> <<>>, live |-> 0]
MskError(live) == [status |-> "error", rows |-> <<>>, live |-> live]

\* The byte stored for a source byte: copied or bit-reversed, and inverted
\* in the same pass when invers is set.
MaskByte(byte, reversed, invers) ==
    LET b == IF reversed THEN revers_bits(byte) ELSE byte IN
    IF invers THEN NotByte(b) ELSE b

\* canvas_get_bitmap_mask(canvas, bitmap, invers): the rows of the A1
\* surface from its first (top) row, A1Stride bytes each, UNWRITTEN where
\* no byte was stored; live counts the surface when the call fails without
\* destroying it.  created: surface_create succeeded.
canvas_get_bitmap_mask(target, bitmap, invers, created) ==
    LET line_size == Shr(ALIGN(bitmap.x, 8), 3)
        flip == IF target = "GL" THEN bitmap.top_down ELSE ~bitmap.top_down
        copied == IF target \in {"GL", "GDI"} THEN BITMAP_FMT_1BIT_BE
                  ELSE BITMAP_FMT_1BIT_LE
        reversed == IF target \in {"GL", "GDI"} THEN BITMAP_FMT_1BIT_LE
                    ELSE BITMAP_FMT_1BIT_BE
        src_of(r) == IF flip THEN bitmap.y + 1 - r ELSE r
    IN  IF ~created
        THEN MskError(0)                              \* "create surface failed"
        ELSE IF flip /\ ~(bitmap.y > 0)
        THEN MskError(1)                              \* ASSERT(bitmap->y > 0)
        ELSE IF bitmap.format \notin {copied, reversed}
        THEN MskError(0)                              \* destroy, "invalid bitmap format"
        ELSE [status |-> "ok", live |-> 0,
              rows |-> [r \in 1..bitmap.y |->
                          [k \in 1..A1Stride(bitmap.x, bitmap.y) |->
                              IF k <= line_size
                              THEN MaskByte(bitmap.data[src_of(r)][k],
                                            bitmap.format = reversed, invers)
                              ELSE UNWRITTEN]]]

MskRest ==
    /\ msk_build = "CAIRO"
    /\ msk_bmp = NoBitmap
    /\ msk_plain = MskNoOutcome
    /\ msk_inv = MskNoOutcome

\* A Bitmap of any format whose rows hold ALIGN(x, 8) / 8 bytes.
MskInit ==
    /\ msk_build \in MskBuilds
    /\ \E format \in BitmapFormats, x \in 1..MaxMskW, y \in 0..MaxMskH,
          top_down \in BOOLEAN :
          \E pats \in [1..y -> BytePatterns] :
             msk_bmp = [format |-> format, x |-> x, y |-> y,
                        stride |-> Shr(ALIGN(x, 8), 3), top_down |-> top_down,
                        data |-> [i \in 1..y |->
                                     PatternRow(pats[i], Shr(ALIGN(x, 8), 3))]]
    /\ msk_plain = MskNoOutcome
    /\ msk_inv = MskNoOutcome

\* One canvas_get_bitmap_mask call on the bitmap, with invers clear.
MskGetPlain ==
    /\ msk_bmp # NoBitmap
    /\ msk_plain.status = "none"
    /\ \E created \in BOOLEAN :
          msk_plain' = canvas_get_bitmap_mask(msk_build, msk_bmp, FALSE, created)
    /\ UNCHANGED <<msk_build, msk_bmp, msk_inv>>
    /\ MskFrame

\* One canvas_get_bitmap_mask call on the bitmap, with invers set.
MskGetInvers ==
    /\ msk_bmp # NoBitmap
    /\ msk_inv.status = "none"
    /\ \E created \in BOOLEAN :
          msk_inv' = canvas_get_bitmap_mask(msk_build, msk_bmp, TRUE, created)
    /\ UNCHANGED <<msk_build, msk_bmp, msk_plain>>
    /\ MskFrame

MskNext == MskGetPlain \/ MskGetInvers

(***************************************************************************)
(* canvas_get_mask (line 1094-1149) and canvas_handle_inverse_user_data    *)
(* (line 1051-1092) as canvas_get_mask calls it.                           *)
(***************************************************************************)
\* A surface of the heap, as thread t creates it: an A1 mask made from
\* bitmap bmp, or an inverse.  caller: the references callers hold, in a
\* call or returned from one; other: those of them that the other canvas's
\* thread (t = 1) holds.
GmSurface(rows, width, height, bitmap, t) ==
    [rows |-> rows, width |-> width, height |-> height, bmp |-> bitmap, inv |-> NULL,
     caller |-> 1, other |-> t]

\* The surface as canvas_A1_invers takes it.
GmAsA1(s) ==
    [format |-> CAIRO_FORMAT_A1, width |-> s.width, height |-> s.height,
     stride |-> A1Stride(s.width, s.height), status |-> "ok", rows |-> s.rows]

\* cairo_surface_reference / cairo_surface_destroy by thread t on a
\* reference the caller holds.
GmReference(heap, surface, t) ==
    [heap EXCEPT ![surface].caller = @ + 1, ![surface].other = @ + t]
GmDestroy(heap, surface, t) ==
    [heap EXCEPT ![surface].caller = @ - 1, ![surface].other = @ - t]

\* is_invers = need_invers && !cache_me (line 1120).
IsInvers(need_invers, cache_me) == need_invers /\ ~cache_me

\* Where a call goes on behind bits_cache_put (line 1139): into
\* canvas_handle_inverse_user_data, or to its return.
GmAfterPut(need_invers, is_invers) ==
    IF need_invers /\ ~is_invers THEN "look" ELSE "done"

\* The status of a call that stands at pc with surface: under way, or
\* returned with a surface ("ok") or with NULL ("none").
GmStatus(pc, surface) ==
    IF pc # "done" THEN "pending" ELSE IF surface = NULL THEN "none" ELSE "ok"

GmOutcome(status, pc, surface, heap, is_invers) ==
    [status |-> status, pc |-> pc, surface |-> surface, heap |-> heap,
     is_invers |-> is_invers]

\* canvas_get_mask(canvas, mask) up to bits_cache_put (line 1094-1133), on
\* mask = [bitmap, invers, type, cache_me, id, bmp]: bitmap is mask->bitmap
\* (NULL or an address), invers the MASK_INVERS flag, type, cache_me and id
\* the descriptor's, bmp the Bitmap of a descriptor of type Bitmap.
\* bits_cache_get hands out what the cache holds for the id, NULL if
\* nothing, with a reference for the caller (thread t).
canvas_get_mask(target, heap, cache, mask, created, t) ==
    IF mask.bitmap = NULL
    THEN GmOutcome("none", "done", NULL, heap, FALSE)
    ELSE IF mask.type \notin {IMAGE_TYPE_BITMAP, IMAGE_TYPE_FROM_CACHE}
    THEN GmOutcome("error", "done", NULL, heap, FALSE)       \* "invalid image type"
    ELSE
    LET need_invers == mask.invers
        is_invers == IF mask.type = IMAGE_TYPE_BITMAP
                     THEN IsInvers(need_invers, mask.cache_me) ELSE FALSE
        built == canvas_get_bitmap_mask(target, mask.bmp, is_invers, created)
        surface == IF mask.type = IMAGE_TYPE_BITMAP THEN Len(heap) + 1
                   ELSE bits_cache_get(cache, mask.id)
        heap1 == IF mask.type = IMAGE_TYPE_BITMAP
                 THEN Append(heap, GmSurface(built.rows, mask.bmp.x, mask.bmp.y, mask.bmp,
                                            t))
                 ELSE IF surface = NULL THEN heap
                 ELSE GmReference(heap, surface, t)
        next == IF mask.cache_me THEN "put" ELSE GmAfterPut(need_invers, is_invers)
    IN  IF mask.type = IMAGE_TYPE_BITMAP /\ built.status # "ok"
        THEN GmOutcome("error", "done", NULL, heap, is_invers)
        ELSE GmOutcome(GmStatus(next, surface), next, surface, heap1, is_invers)

\* The bitmap of the masks: 1-bit, which gm_target copies or bit-reverses.
GmBitmaps ==
    {[format |-> BITMAP_FMT_1BIT_BE, x |-> 9, y |-> 1, stride |-> 2, top_down |-> TRUE,
      data |-> <<<<16, 33>>>>]}

\* The masks of the calls.  Only mask->bitmap and the flags are read of a mask
\* without bitmap, and a descriptor that is not of type Bitmap has no Bitmap.
GmMasks ==
    [bitmap : {NULL}, invers : BOOLEAN, type : {IMAGE_TYPE_BITMAP}, cache_me : {FALSE},
     id : {1}, bmp : {NoBitmap}]
    \cup [bitmap : {1}, invers : BOOLEAN,
          type : {IMAGE_TYPE_FROM_CACHE, IMAGE_TYPE_QUIC}, cache_me : BOOLEAN, id : Ids,
          bmp : {NoBitmap}]
    \cup [bitmap : {1}, invers : BOOLEAN, type : {IMAGE_TYPE_BITMAP}, cache_me : BOOLEAN,
          id : Ids, bmp : GmBitmaps]

\* The masks of the other canvas: inverted masks of the shared cache.
GmOtherMasks ==
    [bitmap : {1}, invers : {TRUE}, type : {IMAGE_TYPE_FROM_CACHE}, cache_me : {FALSE},
     id : Ids, bmp : {NoBitmap}]

\* The threads: 0 is the canvas of gm_last, 1 the other canvas.
GmThreads == 0..1

GmNoMask ==
    [bitmap |-> NULL, invers |-> FALSE, type |-> IMAGE_TYPE_OTHER, cache_me |-> FALSE,
     id |-> 1, bmp |-> NoBitmap]
GmNoCall ==
    [mask |-> GmNoMask, status |-> "idle", pc |-> "done", surface |-> NULL, puts |-> 0,
     original |-> NULL, is_invers |-> FALSE, held |-> 0, own |-> 0]

GmRest ==
    /\ gm_target = "none"
    /\ gm_heap = <<>>
    /\ gm_cache = EmptyCache
    /\ gm_ncalls = 0
    /\ gm_last = GmNoCall
    /\ gm_ocalls = 0
    /\ gm_other = GmNoCall

\* A canvas with an empty bits cache.
GmInit ==
    /\ gm_target \in MskBuilds
    /\ gm_heap = <<>>
    /\ gm_cache = EmptyCache
    /\ gm_ncalls = 0
    /\ gm_last = GmNoCall
    /\ gm_ocalls = 0
    /\ gm_other = GmNoCall

\* The call of thread t, and its next state.
GmCallOf(t) == IF t = 0 THEN gm_last ELSE gm_other
GmSetCall(t, call) ==
    IF t = 0 THEN gm_last' = call /\ UNCHANGED gm_other
    ELSE gm_other' = call /\ UNCHANGED gm_last

\* A canvas_get_mask call begins and runs up to bits_cache_put (line
\* 1094-1133); without CacheMe and without an inverse to get it returns
\* (line 1148).  held: the references the callers of this canvas held on
\* the original before the call; own: the references this call holds on it.
GmStart(t) ==
    /\ gm_target \in MskBuilds
    /\ GmCallOf(t).status # "pending"
    /\ IF t = 0
       THEN gm_ncalls < MaxMaskCalls /\ gm_ncalls' = gm_ncalls + 1 /\ UNCHANGED gm_ocalls
       ELSE gm_ocalls < MaxOtherCalls /\ gm_ocalls' = gm_ocalls + 1 /\ UNCHANGED gm_ncalls
    /\ \E mask \in (IF t = 0 THEN GmMasks ELSE GmOtherMasks), created \in BOOLEAN :
          \E out \in {canvas_get_mask(gm_target, gm_heap, gm_cache, mask, created, t)} :
             /\ gm_heap' = out.heap
             /\ GmSetCall(t, [mask |-> mask, status |-> out.status, pc |-> out.pc,
                              surface |-> out.surface, puts |-> 0,
                              original |-> out.surface, is_invers |-> out.is_invers,
                              held |-> IF out.surface \in DOMAIN gm_heap
                                       THEN IF t = 0
                                            THEN gm_heap[out.surface].caller -
                                                 gm_heap[out.surface].other
                                            ELSE gm_heap[out.surface].other
                                       ELSE 0,
                              own |-> IF out.surface = NULL THEN 0 ELSE 1])
    /\ UNCHANGED <<gm_target, gm_cache>>
    /\ GmFrame

\* if (cache_me) bits_cache_put(id, surface) (line 1135-1137); without an
\* inverse to get the call returns (line 1148).
GmPut(t) ==
    /\ GmCallOf(t).pc = "put"
    /\ LET call == GmCallOf(t)
           next == GmAfterPut(call.mask.invers, call.is_invers)
       IN  /\ gm_cache' = bits_cache_put(gm_cache, call.mask.id, call.surface)
           /\ GmSetCall(t, [call EXCEPT !.puts = 1, !.pc = next,
                                        !.status = GmStatus(next, call.surface)])
    /\ UNCHANGED <<gm_target, gm_heap, gm_ncalls, gm_ocalls>>
    /\ GmFrame

\* canvas_handle_inverse_user_data(surface), the look at the user data with
\* the mutex held (line 1053-1061).  A NULL surface is dereferenced by
\* cairo_surface_get_user_data: the call does not come back.
GmLook(t) ==
    /\ GmCallOf(t).pc = "look"
    /\ LET call == GmCallOf(t) IN
       IF call.original = NULL
       THEN GmSetCall(t, [call EXCEPT !.status = "crash", !.pc = "done"])
       ELSE IF gm_heap[call.original].inv # NULL
       THEN GmSetCall(t, [call EXCEPT !.surface = gm_heap[call.original].inv,
                                      !.pc = "ref"])
       ELSE GmSetCall(t, [call EXCEPT !.pc = "create"])
    /\ UNCHANGED <<gm_target, gm_heap, gm_cache, gm_ncalls, gm_ocalls>>
    /\ GmFrame

\* else branch: cairo_surface_reference(inv_surf) and return inv_surf (line
\* 1087-1091).
GmRef(t) ==
    /\ GmCallOf(t).pc = "ref"
    /\ gm_heap' = GmReference(gm_heap, GmCallOf(t).surface, t)
    /\ GmSetCall(t, [GmCallOf(t) EXCEPT !.pc = "destroy"])
    /\ UNCHANGED <<gm_target, gm_cache, gm_ncalls, gm_ocalls>>
    /\ GmFrame

\* canvas_A1_invers with the mutex not held (line 1062-1072); a failed
\* creation ends the call in CANVAS_ERROR("create surface failed").
GmCreate(t) ==
    /\ GmCallOf(t).pc = "create"
    /\ LET call == GmCallOf(t)
           inverse == canvas_A1_invers(GmAsA1(gm_heap[call.original]), TRUE).surface
       IN  \E inv_created \in BOOLEAN :
              IF inv_created
              THEN /\ gm_heap' = Append(gm_heap, GmSurface(inverse.rows, inverse.width,
                                                           inverse.height, NoBitmap, t))
                   /\ GmSetCall(t, [call EXCEPT !.surface = Len(gm_heap) + 1,
                                                !.pc = "attach"])
              ELSE /\ gm_heap' = gm_heap
                   /\ GmSetCall(t, [call EXCEPT !.status = "error", !.surface = NULL,
                                                !.pc = "done"])
    /\ UNCHANGED <<gm_target, gm_cache, gm_ncalls, gm_ocalls>>
    /\ GmFrame

\* With the mutex held again (line 1074-1085): if the surface still has no
\* user data, inv_surf is attached when cairo_surface_set_user_data
\* succeeds; if another thread attached its inverse meanwhile, nothing is
\* attached.  inv_surf is returned either way (line 1091).
GmAttach(t) ==
    /\ GmCallOf(t).pc = "attach"
    /\ LET call == GmCallOf(t) IN
       \E set_ok \in BOOLEAN :
          gm_heap' = IF gm_heap[call.original].inv = NULL /\ set_ok
                     THEN [gm_heap EXCEPT ![call.original].inv = call.surface]
                     ELSE gm_heap
    /\ GmSetCall(t, [GmCallOf(t) EXCEPT !.pc = "destroy"])
    /\ UNCHANGED <<gm_target, gm_cache, gm_ncalls, gm_ocalls>>
    /\ GmFrame

\* cairo_surface_destroy(surface); surface = inv_surf; return surface (line
\* 1144-1148).
GmDestroyOriginal(t) ==
    /\ GmCallOf(t).pc = "destroy"
    /\ gm_heap' = GmDestroy(gm_heap, GmCallOf(t).original, t)
    /\ GmSetCall(t, [GmCallOf(t) EXCEPT !.status = "ok", !.pc = "done", !.own = 0])
    /\ UNCHANGED <<gm_target, gm_cache, gm_ncalls, gm_ocalls>>
    /\ GmFrame

GmNext ==
    \E t \in GmThreads :
       \/ GmStart(t)
       \/ GmPut(t)
       \/ GmLook(t)
       \/ GmRef(t)
       \/ GmCreate(t)
       \/ GmAttach(t)
       \/ GmDestroyOriginal(t)

(***************************************************************************)
(* The specifications.                                                     *)
(***************************************************************************)
InitInverse ==
    InvInit /\ ImgRest /\ QuicRest /\ BmpRest /\ PxRest /\ IvsRest /\
    StrRest /\ PalRest /\ MskRest /\ GmRest
SpecInverse == InitInverse /\ [][InvNext]_vars

InitImage ==
    ImgInit /\ InvInit /\ QuicRest /\ BmpRest /\ PxRest /\ IvsRest /\
    StrRest /\ PalRest /\ MskRest /\ GmRest
SpecImage == InitImage /\ [][ImgNext]_vars

InitQuic ==
    QuicInit /\ InvInit /\ ImgRest /\ BmpRest /\ PxRest /\ IvsRest /\
    StrRest /\ PalRest /\ MskRest /\ GmRest
SpecQuic == InitQuic /\ [][QuicNext]_vars

\* Sequences of Quic decodes on a canvas whose address delta changes between
\* the calls.
QuicSeqNext == QuicNext \/ QuicSetDelta
SpecQuicSeq == InitQuic /\ [][QuicSeqNext]_vars

InitBitmap ==
    BmpInit /\ InvInit /\ ImgRest /\ QuicRest /\ PxRest /\ IvsRest /\
    StrRest /\ PalRest /\ MskRest /\ GmRest
SpecBitmap == InitBitmap /\ [][BmpNext]_vars

InitPixel ==
    PxInit /\ InvInit /\ ImgRest /\ QuicRest /\ BmpRest /\ IvsRest /\
    StrRest /\ PalRest /\ MskRest /\ GmRest
SpecPixel == InitPixel /\ [][PxNext]_vars

InitInvers ==
    IvsInit /\ InvInit /\ ImgRest /\ QuicRest /\ BmpRest /\ PxRest /\
    StrRest /\ PalRest /\ MskRest /\ GmRest
SpecInvers == InitInvers /\ [][IvsNext]_vars

InitStr ==
    StrInit /\ InvInit /\ ImgRest /\ QuicRest /\ BmpRest /\ PxRest /\
    IvsRest /\ PalRest /\ MskRest /\ GmRest
SpecStr == InitStr /\ [][StrNext]_vars

InitPalette ==
    PalInit /\ InvInit /\ ImgRest /\ QuicRest /\ BmpRest /\ PxRest /\
    IvsRest /\ StrRest /\ MskRest /\ GmRest
SpecPalette == InitPalette /\ [][PalNext]_vars

\* The decoders together: a canvas that decodes Quic images, or a canvas of
\* 32-bit depth in the build with the caches that decodes bitmaps and Lz
\* images.
DecodeInit ==
    \/ QuicInit /\ PalRest
    \/ /\ QuicRest /\ PalInit /\ cache_build /\ color_shift = 8
       /\ \A a \in PalAddrs : pal_wire[a] = WirePalette(<<31, 992>>)
DecodeNext == QuicNext \/ PalNext
InitDecode ==
    DecodeInit /\ InvInit /\ ImgRest /\ BmpRest /\ PxRest /\ IvsRest /\ StrRest /\
    MskRest /\ GmRest
SpecDecode == InitDecode /\ [][DecodeNext]_vars

InitMask ==
    MskInit /\ InvInit /\ ImgRest /\ QuicRest /\ BmpRest /\ PxRest /\
    IvsRest /\ StrRest /\ PalRest /\ GmRest
SpecMask == InitMask /\ [][MskNext]_vars

InitGetMask ==
    GmInit /\ InvInit /\ ImgRest /\ QuicRest /\ BmpRest /\ PxRest /\
    IvsRest /\ StrRest /\ PalRest /\ MskRest
SpecGetMask == InitGetMask /\ [][GmNext]_vars

(***************************************************************************)
(* Claims about the inverse surface cache (SpecInverse).                   *)
(***************************************************************************)
AllIdle == \A t \in Threads : inv_pc[t] = "idle"

\* C1: all concurrent first accesses to the inverse of one surface return the
\* same inverse instance, the one attached to the surface (a caller that
\* lost the race returns the attached surface, not its own).  Stated for runs
\* in which no cairo_surface_set_user_data call failed.
C1_AllCallersGetAttached ==
    (~set_failed /\ user_data # NULL) =>
        \A t \in Threads :
            (inv_pc[t] = "idle" /\ returned[t] # NULL) => returned[t] = user_data

\* C2: the look at the user data and the attach happen with the mutex held by
\* the calling thread, the inverse is computed with the mutex not held by it,
\* and an attached inverse is never replaced or removed by a call (it goes
\* only with the original surface).
C2_LockedCheckAndAttach ==
    /\ [](\A t \in Threads :
            /\ inv_pc[t] \in {"get", "unlock1", "attach", "unlock2"} => mutex = t
            /\ inv_pc[t] \in {"create", "lock2", "ref"} => mutex # t)
    /\ [][user_data # NULL => (user_data' = user_data \/ ~orig_alive')]_vars

\* C2 witness: a thread that computed an inverse stands after the attach step
\* with the mutex held, and the surface holds another thread's inverse.
C2_Witness ==
    \E t \in Threads :
        /\ inv_pc[t] = "unlock2"
        /\ mutex = t
        /\ user_data # NULL
        /\ user_data # inv_surf[t]

\* C3: when no call is running, the reference count of every inverse surface
\* is the number of references callers received and have not released, plus
\* one if it is the attached inverse; so with every caller reference released
\* and the original destroyed every count is zero.
C3_RefcountBalance ==
    AllIdle =>
        /\ \A s \in Surfs :
              refcnt[s] = held[s] + (IF user_data = s THEN 1 ELSE 0)
        /\ (~orig_alive /\ \A s \in Surfs : held[s] = 0) =>
              \A s \in Surfs : refcnt[s] = 0

\* C3 witness: two inverses were computed, one was also found attached by a
\* later call, every caller released and the original is destroyed.
C3_Witness ==
    /\ AllIdle
    /\ ~orig_alive
    /\ allocd >= 2
    /\ ncalls > allocd
    /\ \A s \in Surfs : held[s] = 0

(***************************************************************************)
(* Claims about canvas_get_image (SpecImage).                              *)
(***************************************************************************)
ImgCalled == img_ncalls' = img_ncalls + 1

\* C4: canvas_get_image on a FromCache descriptor fails with an error when the
\* bits cache holds no entry for the id, and returns the stored surface when
\* it holds one.
C4_FromCacheAbsentFails ==
    [][(ImgCalled /\ img_last'.type = IMAGE_TYPE_FROM_CACHE) =>
          IF bits_cache[img_last'.id] = NULL
          THEN img_last'.status = "error"
          ELSE img_last'.status = "ok" /\ img_last'.surface = bits_cache[img_last'.id]]_vars

\* C5: a call puts into the bits cache exactly once, the decoded surface under
\* the descriptor's id, if and only if it is a successful decode of a
\* non-FromCache descriptor carrying CacheMe; every other call leaves the cache
\* as it was; and a FromCache call returns the surface of the most recent
\* CacheMe decode of its id.
C5_CachePutPolicy ==
    /\ [][ImgCalled =>
            IF /\ img_last'.type # IMAGE_TYPE_FROM_CACHE
               /\ img_last'.status = "ok"
               /\ img_last'.cache_me
            THEN /\ bits_cache' = [bits_cache EXCEPT ![img_last'.id] = img_last'.surface]
                 /\ img_last'.surface = img_nsurf'
                 /\ img_puts' = img_puts + 1
            ELSE /\ bits_cache' = bits_cache
                 /\ img_puts' = img_puts]_vars
    /\ []((img_last.type = IMAGE_TYPE_FROM_CACHE /\ img_last.status = "ok") =>
            img_last.surface = img_recent[img_last.id])

\* C5 witness: an id was decoded with CacheMe twice, and a FromCache call then
\* returned the second surface.
C5_Witness ==
    /\ img_last.type = IMAGE_TYPE_FROM_CACHE
    /\ img_last.surface = 2
    /\ img_puts = 2
    /\ \E i \in Ids : bits_cache[i] = 2 /\ \A j \in Ids \ {i} : bits_cache[j] = NULL

(***************************************************************************)
(* Claims about the chunked Quic decode (SpecQuic).                        *)
(***************************************************************************)
\* What the chunk list holds, in list order: <<local address, words>>.
ExpectedSupply ==
    [i \in 1..Len(quic_chain) |-> <<quic_chain[i], mem[quic_chain[i]].size \div 4>>]

RECURSIVE SumWords(_)
SumWords(q) == IF q = <<>> THEN 0 ELSE Head(q)[2] + SumWords(Tail(q))

\* C6: in a decode, the codec is given C0 by the begin call and then C1..Ck by
\* the successive quic_usr_more_space calls, in list order, each once and with
\* size/4 words, every next address translated through the canvas delta of
\* the call; a call returns 0 words only once the whole list has been given,
\* and then no chunk header is read any more.
C6_ChunksInListOrder ==
    quic_ncalls > 0 =>
        /\ Len(quic_supplied) <= Len(ExpectedSupply)
        /\ quic_supplied = SubSeq(ExpectedSupply, 1, Len(quic_supplied))
        /\ quic_reads = Len(quic_supplied)
        /\ quic_got = SumWords(quic_supplied)
        /\ quic_delta = canvas_delta
        /\ quic_zero > 0 => (quic_supplied = ExpectedSupply /\ quic_next = NULL)

\* C6 witness: the list [C0(size=8), C1(size=4)] behind a nonzero delta has
\* been given as 2 words then 1 word, and two more calls returned 0.
C6_Witness ==
    /\ Len(quic_chain) = 2
    /\ canvas_delta # 0
    /\ quic_supplied = <<<<quic_chain[1], 2>>, <<quic_chain[2], 1>>>>
    /\ quic_reads = 2
    /\ quic_zero = 2

\* C7: a decode in which the codec asked for input after the last chunk was
\* consumed ends in an error and returns no surface; a decode that returns a
\* surface has read all the input its stream asks for.
C7_StarvedDecodeFails ==
    (quic_pc = "idle" /\ quic_ncalls > 0) =>
        /\ quic_zero > 0 => (quic_result.status = "error" /\ quic_result.surface = NULL)
        /\ quic_result.status = "ok" =>
              /\ quic_result.surface # NULL
              /\ quic_need <= quic_got
              /\ quic_need <= SumWords(ExpectedSupply)

\* C7 witness: the header was read, the stream asks for more words than the
\* list holds, a quic_usr_more_space call returned 0 and the call ended in an
\* error.
C7_Witness ==
    /\ quic_pc = "idle"
    /\ quic_zero > 0
    /\ quic_got >= HeaderWords
    /\ quic_got = SumWords(ExpectedSupply)
    /\ quic_need > quic_got
    /\ quic_result.status = "error"

(***************************************************************************)
(* Claims about canvas_bitmap_to_surface (SpecBitmap).                     *)
(***************************************************************************)
\* The call was made and got past the surface creation, the height ASSERT of
\* a bottom-up bitmap and the "no palette" test of an indexed format.
BmpReachedCopy ==
    /\ bmp_out.status # "none"
    /\ bmp_created
    /\ (bmp.top_down \/ bmp.y > 0)
    /\ (NeedsPalette(bmp.format) => bmp_palette.present)

\* The source row that a top-down surface shows as its row y (rows from 1).
SourceRowOf(y) == IF bmp.top_down THEN y ELSE bmp.y + 1 - y

\* C8: the surface is always top-down: for every format with a copy function
\* and every height >= 1, surface row y holds the conversion of source row y
\* when TopDown is set and of the row mirrored about the middle (h-1-y, rows
\* from 0) when it is clear.
C8_SurfaceIsTopDown ==
    (bmp_out.status = "ok" /\ HasCopy(bmp.format)) =>
        /\ Len(bmp_out.rows) = bmp.y
        /\ \A y \in 1..bmp.y :
              bmp_out.rows[y] =
                  ConvertRow(bmp.format, bmp.data[SourceRowOf(y)], bmp.x,
                             bmp_palette, bmp_beyond).pixels

\* C8 witness: a 2-row bottom-up 32-bit bitmap with source rows R0 # R1 gave
\* the surface rows [R1, R0].
C8_Witness ==
    /\ bmp_out.status = "ok"
    /\ bmp.format = BITMAP_FMT_32BIT
    /\ ~bmp.top_down
    /\ bmp.y = 2
    /\ bmp.data[1] # bmp.data[2]
    /\ bmp_out.rows = <<Row32(bmp.data[2], bmp.x).pixels, Row32(bmp.data[1], bmp.x).pixels>>

\* The palette index that pixel k (from 1) of a source row refers to: the
\* byte of an 8-bit row, the nibble of a 4-bit row (high nibble first, the
\* trailing pixel of an odd width being the high nibble of the last byte),
\* the bit of a 1-bit row.
PixelIndex(format, src, k) ==
    CASE format = BITMAP_FMT_8BIT -> src[k]
      [] format = BITMAP_FMT_4BIT_BE ->
            IF k % 2 = 1 THEN BitAnd(Shr(src[(k + 1) \div 2], 4), 15)
                         ELSE BitAnd(src[k \div 2], 15)
      [] OTHER -> test_bit_be(src, k - 1)

SomeIndexBeyondPalette ==
    \E i \in 1..bmp.y, k \in 1..bmp.x :
        PixelIndex(bmp.format, bmp.data[i], k) >= bmp_palette.num_ents

\* C9: decoding an 8-bit, 4-bit or 1-bit indexed bitmap fails whenever a
\* palette index referenced by one of its pixels is >= num_ents, the trailing
\* high nibble of an odd-width 4-bit row and the indices of a 1-bit bitmap
\* with a palette of fewer than 2 entries included.
C9_IndexBeyondPaletteFails ==
    (BmpReachedCopy /\ NeedsPalette(bmp.format) /\ SomeIndexBeyondPalette) =>
        bmp_out.status = "error"

(***************************************************************************)
(* Claims about canvas_16bpp_to_32bpp (SpecPixel).                         *)
(***************************************************************************)
\* A 5-bit component expanded to 8 bits by bit replication, (c << 3) | (c >> 2);
\* the two parts share no bit, so the OR is their sum.
Expand5(c) == c * 8 + c \div 4

\* C10: for every 16-bit value the result is the three 5-bit components (bits
\* 0-4, 5-9, 10-14), each expanded by bit replication, in bits 0-7, 8-15 and
\* 16-23; bit 15 of the input has no effect and bits 24-31 of the result are
\* zero.
C10_BitReplication ==
    px_ret # -1 =>
        /\ px_ret = Expand5(px_color % 32)
                    + 256 * Expand5((px_color \div 32) % 32)
                    + 65536 * Expand5((px_color \div 1024) % 32)
        /\ px_ret = canvas_16bpp_to_32bpp(px_color % 32768)
        /\ px_ret \in 0..16777215

\* C10 witness: 0xFFFF (bit 15 set, every component 31) was converted to
\* 0x00FFFFFF.
C10_Witness ==
    /\ px_color = UINT16_MAX
    /\ px_ret = 16777215

\* Component k (0, 1, 2) of a 16-bit pixel, of a 32-bit pixel, and the 16-bit
\* pixel with its component k replaced.
Field5(color, k) == (color \div 32^k) % 32
Byte8(word, k) == (word \div 256^k) % 256
WithField5(color, k, c) == color - Field5(color, k) * 32^k + c * 32^k

\* C11: the expansion is strictly monotonic on each component: raising a 5-bit
\* component by one, whatever the other components are, gives a strictly
\* larger 8-bit output (over all pixels this is c1 < c2 => expand(c1) <
\* expand(c2), so the 32 values map to 32 distinct outputs); 0 gives 0 and 31
\* gives 255.
C11_ExpansionStrictlyMonotonic ==
    px_ret # -1 =>
        \A k \in 0..2 :
            /\ Field5(px_color, k) < 31 =>
                  Byte8(px_ret, k) <
                      Byte8(canvas_16bpp_to_32bpp(
                                WithField5(px_color, k, Field5(px_color, k) + 1)), k)
            /\ Field5(px_color, k) = 0 => Byte8(px_ret, k) = 0
            /\ Field5(px_color, k) = 31 => Byte8(px_ret, k) = 255

\* C11 witness: the pixel with components (30, 0, 31) was converted: 30 gave
\* 247, below the 255 that 31 gives, and 0 gave 0.
C11_Witness ==
    /\ px_color = 30 + 31 * 1024
    /\ px_ret = 247 + 255 * 65536
    /\ Byte8(canvas_16bpp_to_32bpp(31), 0) = 255

(***************************************************************************)
(* Claims about the inversion functions (SpecInvers).                      *)
(***************************************************************************)
\* Pixel x (from 0) of a row of an A1 surface: one bit of byte x / 8.
A1Pixel(row, x) == Shr(row[(x \div 8) + 1], x % 8) % 2

\* Two surfaces of one format and size hold the same pixels: the same bit for
\* every pixel of an A1 surface, the same stored word for every pixel of an
\* RGB24 surface.
PixelIdentical(s, t) ==
    /\ s.format = t.format /\ s.width = t.width /\ s.height = t.height
    /\ \A r \in 1..s.height :
          IF s.format = CAIRO_FORMAT_A1
          THEN \A x \in 0..(s.width - 1) : A1Pixel(s.rows[r], x) = A1Pixel(t.rows[r], x)
          ELSE \A k \in 1..s.width : s.rows[r][k] = t.rows[r][k]

IvsTwice ==
    /\ Len(ivs_out) >= 2
    /\ ~ivs_out[2].fatal
    /\ ivs_out[2].surface.status = "ok"

\* C12: inversion is an involution: the inverse of the inverse of an A1
\* surface (canvas_A1_invers) and of an RGB24 surface (canvas_surf_to_invers)
\* is pixel-identical to the surface, for every size and every stored word.
C12_InversionIsInvolution ==
    IvsTwice => PixelIdentical(ivs_out[2].surface, ivs_src)

(***************************************************************************)
(* Claims about the string mask (SpecStr).                                 *)
(***************************************************************************)
SetMax(S) == CHOOSE m \in S : \A n \in S : n <= m

StrBoundsOf(glyphs) == StrBounds(canvas_raster_glyph_box(Head(glyphs)), Tail(glyphs))

\* The line of the mask image (from 0, top line first) that memory row r
\* (from 1) of the mask holds: with GL_CANVAS the mask is stored last line
\* first.
MaskLine(r) == IF str_gl THEN Len(str_out.rows) - r ELSE r - 1

\* The 8bpp samples of the string's glyphs that map to the cell at line y,
\* column x of the mask: glyph rows are stored bottom-up, so line j of a
\* glyph's box shows the glyph's source row height-1-j.
SamplesAt(y, x) ==
    {LET g == str_glyphs[k]
         b == rect_offset(canvas_raster_glyph_box(g), -StrBoundsOf(str_glyphs).left,
                          -StrBoundsOf(str_glyphs).top)
     IN  g.data[(g.height - 1 - (y - b.top)) * g.width + (x - b.left) + 1] :
        k \in {k \in 1..Len(str_glyphs) :
                 LET b == rect_offset(canvas_raster_glyph_box(str_glyphs[k]),
                                      -StrBoundsOf(str_glyphs).left,
                                      -StrBoundsOf(str_glyphs).top)
                 IN  y \in b.top..(b.bottom - 1) /\ x \in b.left..(b.right - 1)}}

\* C13: after the 8bpp glyphs of a string were blitted, in whichever order,
\* every cell of the mask holds the maximum of the glyph samples that map to
\* it, or 0 if none does (0x80 and 0x40 on one cell give 0x80).
C13_MaxOfCoveringSamples ==
    (str_out.status = "ok" /\ str_bpp = 8) =>
        \A r \in 1..Len(str_out.rows) :
            \A c \in 1..Len(str_out.rows[r]) :
                str_out.rows[r][c] = SetMax(SamplesAt(MaskLine(r), c - 1) \cup {0})

(***************************************************************************)
(* More claims about canvas_bitmap_to_surface (SpecBitmap).                *)
(***************************************************************************)
\* C14: in a decoded 4-bit big-endian bitmap of any width, pixel x of a row is
\* palette.ents[n], n being the high nibble of row byte x/2 for an even x and
\* its low nibble for an odd x; the last pixel of an odd width comes from the
\* high nibble of the row's last byte.  Stated for bitmaps all of whose
\* nibbles in use are below num_ents.
C14_FourBitNibbleOrder ==
    (/\ bmp_out.status = "ok"
     /\ bmp.format = BITMAP_FMT_4BIT_BE
     /\ ~SomeIndexBeyondPalette) =>
        \A y \in 1..bmp.y :
            \A x \in 1..bmp.x :
                bmp_out.rows[y][x] =
                    bmp_palette.ents[PixelIndex(BITMAP_FMT_4BIT_BE,
                                                bmp.data[SourceRowOf(y)], x) + 1]

\* C15: when a codec reports an error through its error callback during a
\* Quic or Lz decode, the surface the attempt allocated is released exactly
\* once and nothing else is freed, so no surface of the failed decode stays
\* live: a Quic error callback leaves quic_live as it was, and an Lz decode
\* that fails after alloc_lz_image_surface leaves no surface live and frees
\* no pointer of its own.
C15_ErrorCallbackReleasesSurface ==
    [][/\ QuicUsrError => quic_live' = quic_live
       /\ (PalGetLz /\ pal_last'.status = "error" /\ pal_last'.allocated)
             => (pal_last'.live = 0 /\ ~pal_last'.freed /\ pal_live' = pal_live)]_vars

\* The single 16-to-32-bit expansion of palette entries.
Localized(ents) == [i \in DOMAIN ents |-> canvas_16bpp_to_32bpp(ents[i])]

\* C16: in 16-bit color mode every decode that references a palette makes
\* its pixels with the single 16-to-32-bit expansion of the entries the
\* sender wrote, however often the palette was referenced before.
C16_LocalizedOnce ==
    (color_shift = 5 /\ pal_last.status = "ok" /\ pal_last.palette # NULL)
        => pal_last.used.ents = Localized(pal_orig[pal_last.palette].ents)

\* C17: a decode that resolves a palette with the CacheMe flag leaves the
\* entries in the wire buffers as they were, and in 8-bit-per-component mode
\* (color_shift 8) no decode modifies an entry of a wire buffer or of a
\* palette the cache holds.
C17_CacheMeLeavesWireUnchanged ==
    [][/\ (/\ pal_ncalls' # pal_ncalls
           /\ pal_last'.palette # NULL
           /\ pal_last'.flags.cache_me /\ ~pal_last'.flags.from_cache)
             => pal_wire' = pal_wire
       /\ color_shift = 8
             => /\ pal_wire' = pal_wire
                /\ \A a \in PalAddrs : palette_cache[a].present
                                          => palette_cache'[a] = palette_cache[a]]_vars

\* C18: every palette a decode borrows from the palette cache is released
\* once before the decode ends, palettes that did not come from the cache
\* are not released, and after any sequence of decodes the number of
\* palette_cache_get calls equals the number of palette_cache_release calls.
C18_BorrowedPaletteReleasedOnce ==
    /\ pal_last.gets = pal_last.releases
    /\ pal_gets = pal_releases
    /\ pal_bad_rel = 0

\* The image types the decoders take.
QuicTypes == {"RGBA", "RGB32", "RGB24", "RGB16"}
LzTypes == QuicTypes \cup {"PLT1_LE", "PLT1_BE", "PLT4_LE", "PLT4_BE", "PLT8"}

\* C19: a Quic or Lz decode whose codec reports a width or height other than
\* the descriptor's, or an image type outside the supported set, fails, and
\* fails before the output surface is allocated: the call ends in error with
\* no surface allocated and none left live.  (The step in which
\* quic_decode_begin returns is the one that sets quic_hdr; the step of a
\* canvas_get_lz call is the one that counts a call of kind "lz".)
C19_HeaderMismatchFailsBeforeAlloc ==
    [][/\ (/\ quic_hdr = NoHeader /\ quic_hdr' # NoHeader
           /\ (quic_hdr'.type \notin QuicTypes \/ ~quic_hdr'.same_size))
             => /\ quic_result'.status = "error"
                /\ quic_pc' = "idle"
                /\ quic_surface' = NULL
                /\ quic_live' = quic_live
       /\ (/\ pal_ncalls' # pal_ncalls /\ pal_last'.kind = "lz"
           /\ pal_last'.hdr # NoLzHeader
           /\ (pal_last'.hdr.type \notin LzTypes \/ ~pal_last'.hdr.same_size))
             => /\ pal_last'.status = "error"
                /\ ~pal_last'.allocated
                /\ pal_live' = pal_live]_vars

\* An Lz decode whose codec reported a supported type with a width or height
\* other than the descriptor's has failed with nothing allocated.
C19_Witness ==
    /\ pal_last.kind = "lz"
    /\ pal_last.hdr.type = "RGB32"
    /\ ~pal_last.hdr.same_size
    /\ pal_last.status = "error"
    /\ ~pal_last.allocated

\* The formats canvas_bitmap_to_surface converts, and those that need a
\* palette.
ConvertedFormats ==
    {BITMAP_FMT_32BIT, BITMAP_FMT_RGBA, BITMAP_FMT_24BIT, BITMAP_FMT_16BIT,
     BITMAP_FMT_8BIT, BITMAP_FMT_4BIT_BE, BITMAP_FMT_1BIT_BE}
PaletteFormats == {BITMAP_FMT_8BIT, BITMAP_FMT_4BIT_BE, BITMAP_FMT_1BIT_BE}

\* C20: canvas_bitmap_to_surface fails for a bitmap of a format it does not
\* convert and for an 8-, 4- or 1-bit bitmap without a palette, and a
\* surface it returns has no pixel that a conversion did not write (the
\* conversions write every pixel of every row, so the pixels to look at are
\* those of a surface returned without a conversion).
C20_UnsupportedFormatFails ==
    bmp_out.status # "none" =>
        /\ bmp.format \notin ConvertedFormats => bmp_out.status = "error"
        /\ (bmp.format \in PaletteFormats /\ ~bmp_palette.present)
              => bmp_out.status = "error"
        /\ (bmp_out.status = "ok" /\ ~HasCopy(bmp.format))
              => \A r \in DOMAIN bmp_out.rows : \A k \in DOMAIN bmp_out.rows[r] :
                    bmp_out.rows[r][k] # UNWRITTEN

\* The cursor a call holds after it was given the first n chunks of its list.
CursorAfter(n) ==
    IF n < Len(quic_chain) THEN quic_chain[n + 1] - canvas_delta ELSE NULL

\* C21: in any sequence of Quic decode calls, a call in progress works on
\* per-call state only: its address delta is the canvas delta of its entry,
\* the chunks it was given are the first chunks of its own list, its cursor
\* is the next pointer of the last chunk it was given, and a 0 was returned
\* to it only at the end of its own list, whatever cursor, delta or error the
\* call before left behind.
C21_FreshPerCallState ==
    quic_pc # "idle" =>
        /\ quic_delta = canvas_delta
        /\ Len(quic_supplied) \in 1..Len(quic_chain)
        /\ quic_supplied = SubSeq(ExpectedSupply, 1, Len(quic_supplied))
        /\ quic_reads = Len(quic_supplied)
        /\ quic_next = CursorAfter(Len(quic_supplied))
        /\ quic_zero > 0 => quic_supplied = ExpectedSupply

\* C21 witness: the call before was abandoned with its cursor on a chunk and
\* ended in an error, the delta was changed since, and the second call has
\* been given the two chunks of its list.
C21_Witness ==
    /\ quic_ncalls = 2
    /\ quic_pc = "decode"
    /\ quic_prev.cursor_left
    /\ quic_prev.delta # canvas_delta
    /\ quic_result.status = "error"
    /\ quic_supplied = ExpectedSupply
    /\ Len(quic_supplied) = 2

\* Bit i of a byte is set.
BitSet(byte, i) == BitAnd(byte, Shl(1, i)) # 0

\* The bytes of the mask's bitmap.
MskBytes == {msk_bmp.data[r][k] : r \in 1..msk_bmp.y, k \in 1..msk_bmp.stride}

\* The formats of one bit per pixel.
OneBitFormats == {BITMAP_FMT_1BIT_LE, BITMAP_FMT_1BIT_BE}

\* On a 1-bit bitmap the mask made with invers set is, over the first
\* ALIGN(width, 8) / 8 bytes of each row, the complement of the mask made
\* with invers clear.
MskFusedIsComplement ==
    (msk_plain.status = "ok" /\ msk_inv.status = "ok") =>
        /\ msk_bmp.format \in OneBitFormats
        /\ \A r \in 1..msk_bmp.y : \A k \in 1..Shr(ALIGN(msk_bmp.x, 8), 3) :
              /\ msk_plain.rows[r][k] \in 0..255
              /\ msk_inv.rows[r][k] = NotByte(msk_plain.rows[r][k])

\* revers_bits maps bit i of a byte to bit 7 - i and is its own inverse.
MskReversIsInvolution ==
    \A b \in MskBytes :
        /\ \A i \in 0..7 : BitSet(revers_bits(b), 7 - i) = BitSet(b, i)
        /\ revers_bits(revers_bits(b)) = b

\* A call on a bitmap of another format has failed, with the surface it
\* allocated destroyed.
MskOtherFormatFails ==
    msk_bmp.format \notin OneBitFormats =>
        /\ msk_plain.status # "none" => (msk_plain.status = "error" /\ msk_plain.live = 0)
        /\ msk_inv.status # "none" => (msk_inv.status = "error" /\ msk_inv.live = 0)

\* C22: for every 1-bit bitmap the mask of canvas_get_bitmap_mask with
\* invers set is the bitwise complement, over the first ALIGN(width, 8) / 8
\* bytes of each row, of the mask with invers clear; revers_bits maps bit i
\* to bit 7 - i and is its own inverse; a bitmap of any other format fails
\* after the allocated surface is destroyed.
C22_FusedInversionIsComplement ==
    MskFusedIsComplement /\ MskReversIsInvolution /\ MskOtherFormatFails

(***************************************************************************)
(* More claims about the glyph masks (SpecStr).                            *)
(***************************************************************************)
\* The sample at column x (from 0) of source row srow (from 0) of a glyph's
\* packed bitmap: a byte (8bpp), a nibble times 16, high nibble first (4bpp),
\* or a bit, most significant bit first (1bpp).
GlyphSample(g, bpp, srow, x) ==
    CASE bpp = 8 -> g.data[srow * g.width + x + 1]
      [] bpp = 4 ->
           LET byte == g.data[srow * Shr(ALIGN(g.width * 4, 8), 3) + x \div 2 + 1]
           IN  IF x % 2 = 0 THEN BitAnd(byte, 240) ELSE (byte % 16) * 16
      [] OTHER ->
           LET byte == g.data[srow * Shr(ALIGN(g.width, 8), 3) + x \div 8 + 1]
           IN  IF BitSet(byte, 7 - (x % 8)) THEN 1 ELSE 0

\* The sample the mask holds in memory row r (from 1) at column x (from 0):
\* a byte of the A8 mask, or a bit of the A1 mask (least significant bit
\* first; most significant bit first with GL_CANVAS).
MaskSample(r, x) ==
    IF str_bpp = 1
    THEN IF BitSet(str_out.rows[r][x \div 8 + 1], IF str_gl THEN 7 - (x % 8) ELSE x % 8)
         THEN 1 ELSE 0
    ELSE str_out.rows[r][x + 1]

\* The string is one glyph and its mask was made.
OneGlyphDone == str_out.status = "ok" /\ Len(str_glyphs) = 1

\* Row j of the mask holds source row height-1-j of the glyph.
GlyphRowsReversed ==
    OneGlyphDone =>
        LET g == str_glyphs[1] IN
        \A r \in 1..g.height : \A x \in 0..(g.width - 1) :
            MaskSample(r, x) = GlyphSample(g, str_bpp, g.height - 1 - MaskLine(r), x)

\* The mask does not depend on the bytes that follow the glyph's data.
GlyphReadsOwnData ==
    OneGlyphDone =>
        LET g == str_glyphs[1] IN
        \A tail \in AfterTails :
            canvas_get_str_mask(<<[g EXCEPT !.after = tail]>>, str_bpp, TRUE,
                                str_gl).rows = str_out.rows

\* C23: for bpp 1, 4 and 8 canvas_put_glyph_bits reads only bytes of the
\* glyph's own data and composes source row height-1-j of the glyph into
\* row j of the glyph's box in the mask, for every j in 0..height-1, a glyph
\* of height 1 included.
C23_GlyphRowsFromOwnData ==
    GlyphRowsReversed /\ GlyphReadsOwnData

\* The box of glyph k of the string within the mask.
BoxInMask(k) ==
    rect_offset(canvas_raster_glyph_box(str_glyphs[k]), -StrBoundsOf(str_glyphs).left,
                -StrBoundsOf(str_glyphs).top)

\* The 4bpp samples (nibble times 16) of the string's glyphs that map to the
\* cell at line y, column x of the mask.
NibblesAt(y, x) ==
    {GlyphSample(str_glyphs[k], 4, str_glyphs[k].height - 1 - (y - BoxInMask(k).top),
                 x - BoxInMask(k).left) :
        k \in {k \in 1..Len(str_glyphs) :
                 /\ y \in BoxInMask(k).top..(BoxInMask(k).bottom - 1)
                 /\ x \in BoxInMask(k).left..(BoxInMask(k).right - 1)}}

\* C24: a 4bpp glyph is composed as dest' = max(dest, v * 16) for each
\* source nibble v, within 8 bits, whatever dest held and whatever the other
\* nibble of the source byte is: after the glyphs of a string were blitted,
\* every cell of the mask holds the maximum of the nibbles (times 16) that
\* map to it, so no blit decreased a sample.
C24_NibbleMaxCompositing ==
    (str_out.status = "ok" /\ str_bpp = 4) =>
        \A r \in 1..Len(str_out.rows) :
            \A c \in 1..Len(str_out.rows[r]) :
                str_out.rows[r][c] = SetMax(NibblesAt(MaskLine(r), c - 1) \cup {0})


\* The mask canvas_get_bitmap_mask makes of a bitmap without inversion, and
\* with it.
GmPlainRows(bitmap) == canvas_get_bitmap_mask(gm_target, bitmap, FALSE, TRUE).rows
GmInversRows(bitmap) == canvas_get_bitmap_mask(gm_target, bitmap, TRUE, TRUE).rows

\* The surface h of the heap is the non-inverted mask of the bitmap it was
\* made from.
GmNonInverted(h) ==
    /\ h \in DOMAIN gm_heap
    /\ gm_heap[h].bmp # NoBitmap
    /\ gm_heap[h].rows = GmPlainRows(gm_heap[h].bmp)

\* The last call was served by a surface that is in the cache.
GmLastCached ==
    /\ gm_last.status = "ok"
    /\ gm_last.mask.cache_me \/ gm_last.mask.type = IMAGE_TYPE_FROM_CACHE

\* What canvas_get_mask does with the cache and the Invers flag: every
\* surface in the bits cache is the non-inverted mask; a Bitmap mask with
\* CacheMe is built without inversion and put under descriptor.id; with
\* Invers on a cached mask the caller gets an inverse of the original and
\* holds no reference to the original more than before the call (own, and
\* the references of this canvas's callers in the count); a Bitmap
\* mask without CacheMe is inverted directly, is returned itself and
\* nothing is put in the cache; a mask without bitmap returns no surface; a
\* descriptor that is neither Bitmap nor FromCache is fatal.
GmCachePolicy ==
    /\ \A id \in Ids : gm_cache[id] # NULL => GmNonInverted(gm_cache[id])
    /\ (GmLastCached /\ gm_last.mask.type = IMAGE_TYPE_BITMAP) =>
           /\ ~gm_last.is_invers
           /\ gm_last.puts = 1
           /\ gm_cache[gm_last.mask.id] = gm_last.original
           /\ gm_heap[gm_last.original].rows = GmPlainRows(gm_last.mask.bmp)
    /\ (GmLastCached /\ gm_last.mask.type = IMAGE_TYPE_FROM_CACHE) =>
           /\ gm_cache[gm_last.mask.id] = gm_last.original
           /\ gm_last.puts = (IF gm_last.mask.cache_me THEN 1 ELSE 0)
    /\ (GmLastCached /\ ~gm_last.mask.invers) =>
           /\ gm_last.surface = gm_last.original
           /\ gm_last.own = 1
           /\ gm_heap[gm_last.original].caller - gm_heap[gm_last.original].other =
                  gm_last.held + 1
    /\ (GmLastCached /\ gm_last.mask.invers) =>
           /\ gm_last.surface # gm_last.original
           /\ gm_heap[gm_last.surface].rows =
                  canvas_A1_invers(GmAsA1(gm_heap[gm_last.original]), TRUE).surface.rows
           /\ gm_heap[gm_last.surface].caller >= 1
           /\ gm_last.own = 0
           /\ gm_heap[gm_last.original].caller - gm_heap[gm_last.original].other =
                  gm_last.held
    /\ (gm_last.status = "ok" /\ gm_last.mask.type = IMAGE_TYPE_BITMAP /\
        ~gm_last.mask.cache_me) =>
           /\ gm_last.is_invers = gm_last.mask.invers
           /\ gm_last.puts = 0
           /\ gm_last.surface = gm_last.original
           /\ gm_heap[gm_last.surface].bmp = gm_last.mask.bmp
           /\ \A id \in Ids : gm_cache[id] # gm_last.surface
           /\ gm_heap[gm_last.surface].rows =
                  (IF gm_last.mask.invers THEN GmInversRows(gm_last.mask.bmp)
                   ELSE GmPlainRows(gm_last.mask.bmp))
    /\ (gm_ncalls > 0 /\ gm_last.mask.bitmap = NULL) =>
           gm_last.status = "none" /\ gm_last.surface = NULL /\ gm_last.puts = 0
    /\ (gm_last.mask.bitmap # NULL /\
        gm_last.mask.type \notin {IMAGE_TYPE_BITMAP, IMAGE_TYPE_FROM_CACHE}) =>
           gm_last.status = "error" /\ gm_last.puts = 0

\* With Invers on a cached mask the surface returned is the inverse that is
\* attached to the original.
GmReturnsAttached ==
    (GmLastCached /\ gm_last.mask.invers) =>
        gm_last.surface = gm_heap[gm_last.original].inv

\* C25: in canvas_get_mask the surface stored in or fetched from the bits
\* cache is always the non-inverted mask, whatever the Invers flag: a Bitmap
\* mask with CacheMe is built without inversion and put under descriptor.id,
\* and when Invers is requested for a cached mask (CacheMe or FromCache) the
\* result returned is the attached inverse got through
\* canvas_handle_inverse_user_data while the caller's reference to the
\* original is dropped; a Bitmap mask without CacheMe is inverted directly
\* and nothing is cached; a mask without bitmap returns no surface, and a
\* descriptor type other than Bitmap or FromCache is fatal.
C25_CacheHoldsNonInverted ==
    GmCachePolicy /\ GmReturnsAttached

====
